---------------------------- MODULE Spec2Model ----------------------------
(***************************************************************************)
(* A model of the Markov normal-algorithm interpreter:                     *)
(*   core/markov_engine.py   Rule, ExecutionHistory, MarkovEngine          *)
(*   core/rule_validator.py  RuleValidator                                 *)
(* Strings are sequences of one-character strings, so that str.find,       *)
(* slicing and concatenation are modelled by what they compute.            *)
(* One MarkovEngine instance is modelled; execute is modelled one pass of  *)
(* its while loop at a time.                                               *)
(***************************************************************************)
EXTENDS Integers, Sequences, FiniteSets, TLC

\* ------------------------------------------------------------- bounds ----
\* The most add_rule and load_rules calls the caller makes (the code has no such
\* limit).
MaxAdds == 2
\* The most execute calls the caller makes (the code has no such limit).
MaxExecs == 2
\* MarkovEngine(max_iterations=MaxIter): the code's default is 1000.
MaxIter == 2
\* MarkovEngine(max_output_length=MaxOut): the code's default is 10000.
MaxOut == 3
\* RuleValidator(max_pattern_length=MaxPattern): the code's default is 100.
MaxPattern == 2
\* RuleValidator(max_rule_length=MaxReplacement): the code's default is 1000.
MaxReplacement == 2

\* A pattern and a replacement of exactly the validator's limits (abab.., aaa..),
\* and a pattern and a replacement one character longer.
LimitPattern == [k \in 1..MaxPattern |-> IF k % 2 = 1 THEN "a" ELSE "b"]
LimitReplacement == [k \in 1..MaxReplacement |-> "a"]
LongPattern == [k \in 1..(MaxPattern + 1) |-> IF k % 2 = 1 THEN "a" ELSE "b"]
LongReplacement == [k \in 1..(MaxReplacement + 1) |-> "a"]

\* The (pattern, replacement, is_final) triples the caller offers to add_rule.
\* The last three are too long: in both parts, in the pattern, in the replacement.
RuleChoices ==
    { << <<"a">>, <<"b">>, FALSE >>,
      << <<"b">>, <<"a">>, FALSE >>,
      << <<"a">>, LimitReplacement, FALSE >>,
      << <<"b">>, << >>, TRUE >>,
      << << >>, << >>, FALSE >>,
      << << >>, <<"b">>, TRUE >>,
      << LimitPattern, << >>, FALSE >>,
      << LongPattern, LongReplacement, FALSE >>,
      << LongPattern, << >>, FALSE >>,
      << <<"a">>, LongReplacement, TRUE >> }

\* The texts the caller passes to execute. The last one is longer than MaxOut.
InputChoices ==
    { << >>, <<"a", "b", "a">>, <<"a", "a", "a", "a">> }

\* The files the caller passes to load_rules: one that cannot be opened or
\* parsed, one whose only record is longer than both limits of the validator, and
\* one whose first record has no is_final key, whose second is a final rule that
\* makes the string longer, and whose third has no replacement.
FileChoices ==
    { [readable |-> FALSE, records |-> << >>],
      [readable |-> TRUE,
       records |-> << [pattern |-> LongPattern,
                       replacement |-> LongReplacement,
                       is_final |-> FALSE] >>],
      [readable |-> TRUE,
       records |-> << [pattern |-> <<"b">>, replacement |-> <<"a">>],
                      [pattern |-> <<"a">>, replacement |-> <<"a", "a">>,
                       is_final |-> TRUE],
                      [pattern |-> <<"a">>] >>] }

\* The max_iterations the engine is built with.
MaxIterationsChoices == { 0, MaxIter }

\* ------------------------------------------------------------ strings ----
Min(S) == CHOOSE x \in S : \A y \in S : x <= y
Max(S) == CHOOSE x \in S : \A y \in S : x >= y

\* s[i:i+len(p)] == p, with 0-based i
MatchAt(s, p, i) ==
    /\ i >= 0
    /\ i + Len(p) <= Len(s)
    /\ \A k \in 1..Len(p) : s[i + k] = p[k]

\* the 0-based positions at which p occurs in s
Occurrences(s, p) == { i \in 0..Len(s) : MatchAt(s, p, i) }

\* str.find with the last occurrence instead of the first (str.rfind)
FindLast(s, p) ==
    IF Occurrences(s, p) = {} THEN -1 ELSE Max(Occurrences(s, p))

\* str.find as a prefix test (str.startswith): 0 or -1
FindAtStart(s, p) ==
    IF MatchAt(s, p, 0) THEN 0 ELSE -1

\* str.find that does not find the empty string
FindNonEmpty(s, p) ==
    IF p = << >> \/ Occurrences(s, p) = {} THEN -1 ELSE Min(Occurrences(s, p))

\* str.find(p): the lowest index at which p occurs in s, or -1
Find(s, p) ==
    IF Occurrences(s, p) = {} THEN -1 ELSE Min(Occurrences(s, p))

\* pattern in text
Contains(text, p) == Find(text, p) # -1

\* s[:n] and s[n:] with 0 <= n
Prefix(s, n) == SubSeq(s, 1, IF n < Len(s) THEN n ELSE Len(s))
Suffix(s, n) == SubSeq(s, n + 1, Len(s))

\* work_string[:position] + rule.replacement + work_string[position + len(rule.pattern):]
Splice(w, position, pattern, replacement) ==
    Prefix(w, position) \o replacement \o Suffix(w, position + Len(pattern))

\* ---------------------------------------------------------------- Rule ----
\* Rule.__init__
Rule(pattern, replacement, is_final) ==
    [pattern |-> pattern, replacement |-> replacement,
     is_final |-> is_final, applied_count |-> 0]

\* ------------------------------------------------------- RuleValidator ----
\* RuleValidator.__init__: the two limits of the engine's validator
max_pattern_length == MaxPattern
max_rule_length == MaxReplacement

\* the length checks with >= for >: a length equal to the limit is refused
validate_rule_exclusive(pattern, replacement, is_final) ==
    (IF Len(pattern) >= max_pattern_length
        THEN << <<"pattern too long", Len(pattern), max_pattern_length>> >>
        ELSE << >>)
    \o
    (IF Len(replacement) >= max_rule_length
        THEN << <<"replacement too long", Len(replacement), max_rule_length>> >>
        ELSE << >>)

\* RuleValidator.validate_rule on str, str, bool arguments: the error list
validate_rule(pattern, replacement, is_final) ==
    (IF Len(pattern) > max_pattern_length
        THEN << <<"pattern too long", Len(pattern), max_pattern_length>> >>
        ELSE << >>)
    \o
    (IF Len(replacement) > max_rule_length
        THEN << <<"replacement too long", Len(replacement), max_rule_length>> >>
        ELSE << >>)

\* the first loop without the test for an empty pattern
RECURSIVE GrowthWarningsAnyPattern(_, _)
GrowthWarningsAnyPattern(rule_tuples, i) ==
    IF i > Len(rule_tuples) THEN << >>
    ELSE (IF Len(rule_tuples[i][2]) > Len(rule_tuples[i][1])
             THEN << <<"growth", i, rule_tuples[i][1], rule_tuples[i][2]>> >>
             ELSE << >>)
         \o GrowthWarningsAnyPattern(rule_tuples, i + 1)

\* RuleValidator.detect_potential_cycles: first loop (growth)
RECURSIVE GrowthWarnings(_, _)
GrowthWarnings(rule_tuples, i) ==
    IF i > Len(rule_tuples) THEN << >>
    ELSE (IF Len(rule_tuples[i][2]) > Len(rule_tuples[i][1]) /\ rule_tuples[i][1] # << >>
             THEN << <<"growth", i, rule_tuples[i][1], rule_tuples[i][2]>> >>
             ELSE << >>)
         \o GrowthWarnings(rule_tuples, i + 1)

\* the nested loop over the pairs with i < j only: a pair is reported once
RECURSIVE MutualWarningsOnce(_, _, _)
MutualWarningsOnce(rule_tuples, i, j) ==
    IF i > Len(rule_tuples) THEN << >>
    ELSE IF j > Len(rule_tuples) THEN MutualWarningsOnce(rule_tuples, i + 1, 1)
    ELSE (IF /\ i < j
             /\ Contains(rule_tuples[j][2], rule_tuples[i][1])
             /\ Contains(rule_tuples[i][2], rule_tuples[j][1])
             THEN << <<"mutual", i, j>> >>
             ELSE << >>)
         \o MutualWarningsOnce(rule_tuples, i, j + 1)

\* RuleValidator.detect_potential_cycles: second, nested loop (mutual substitution)
RECURSIVE MutualWarnings(_, _, _)
MutualWarnings(rule_tuples, i, j) ==
    IF i > Len(rule_tuples) THEN << >>
    ELSE IF j > Len(rule_tuples) THEN MutualWarnings(rule_tuples, i + 1, 1)
    ELSE (IF /\ i # j
             /\ Contains(rule_tuples[j][2], rule_tuples[i][1])
             /\ Contains(rule_tuples[i][2], rule_tuples[j][1])
             THEN << <<"mutual", i, j>> >>
             ELSE << >>)
         \o MutualWarnings(rule_tuples, i, j + 1)

\* RuleValidator.detect_potential_cycles (rule numbers are 1-based, as in the messages)
detect_potential_cycles(rule_tuples) ==
    GrowthWarnings(rule_tuples, 1) \o MutualWarnings(rule_tuples, 1, 1)

\* -------------------------------------------------------------- state ----
VARIABLES
    rules,              \* MarkovEngine.rules: sequence of Rule
    history,            \* MarkovEngine.history.entries
    stats,              \* MarkovEngine.stats
    max_iterations,     \* MarkovEngine.max_iterations
    max_output_length,  \* MarkovEngine.max_output_length
    pc,                 \* "idle", or "loop": an execute call is at its while test
    input_text,         \* execute's argument
    work_string,        \* execute's local
    iteration,          \* execute's local
    warnings,           \* execute's local
    result,             \* what the last execute call that returned, returned
    raised,             \* the ExecutionLimitError of the last execute call, or NoError
    add_error,          \* the RuleValidationError of the last add_rule call, or NoError
    load_error,         \* the exception of the last load_rules call, or NoError
    saved,              \* the file at the path the caller passes to save_rules
    adds,               \* the caller: how many add_rule and load_rules calls it has made
    heap,               \* the objects that several holders can reach, by identity
    engines,            \* the MarkovEngine instances: the identities of their parts
    calls,              \* the execute calls in progress on them, and how each ended
    returned,           \* the results returned so far, in the order of return
    app                 \* MarkovApp: the rule editor, the fields and the history view

vars == <<rules, history, stats, max_iterations, max_output_length, pc,
          input_text, work_string, iteration, warnings, result, raised, add_error,
          load_error, saved, adds, heap, engines, calls, returned, app>>

\* the state of the one engine that is called directly
direct == <<rules, history, stats, max_iterations, max_output_length, pc,
            input_text, work_string, iteration, warnings, result, raised, add_error,
            load_error, saved, adds>>

\* the engines, calls and window that are reached through object identities
objects == <<heap, engines, calls, returned, app>>

NoResult == [status |-> "none"]
NoError == [kind |-> "none", limit |-> "none"]

\* a path at which there is no file yet: open(filepath, 'r') fails
NoFile == [readable |-> FALSE, records |-> << >>]

\* MarkovEngine.reset_stats
reset_stats ==
    [total_executions |-> 0, total_replacements |-> 0, total_cycles_detected |-> 0]

\* ------------------------------------------------------ object identity ----
\* a new object on the heap h: it takes the next identity
Alloc(h, value) == [heap |-> Append(h, value), id |-> Len(h) + 1]

\* MarkovEngine.__init__ with the history and the counters of the first instance
\* kept by every later one
MarkovEngine_init_shared(h) ==
    LET r == Alloc(h, << >>)
        e == Alloc(r.heap, << >>)
        s == Alloc(e.heap, reset_stats)
    IN  IF h = << >>
        THEN [heap |-> s.heap,
              self |-> [rules |-> r.id, history |-> e.id, stats |-> s.id]]
        ELSE [heap |-> r.heap, self |-> [rules |-> r.id, history |-> 2, stats |-> 3]]

\* MarkovEngine.__init__: self.rules = [], self.history = ExecutionHistory(),
\* reset_stats() each make a new object
MarkovEngine_init(h) ==
    LET r == Alloc(h, << >>)
        e == Alloc(r.heap, << >>)
        s == Alloc(e.heap, reset_stats)
    IN  [heap |-> s.heap, self |-> [rules |-> r.id, history |-> e.id, stats |-> s.id]]

\* no dialog is open
NoDialog == [kind |-> "none"]

\* MarkovApp.__init__, RuleEditor.__init__, HistoryViewer.__init__: the window
\* on the engine `engine`, an empty editor and a history view with its own list
MarkovApp_init(h, engine) ==
    LET d == Alloc(h, << >>)
    IN  [heap |-> d.heap,
         self |-> [engine |-> engine,
                   rules |-> << >>,
                   selected_rule_index |-> 0,
                   error_text |-> "",
                   output_text |-> << >>,
                   history_data |-> d.id,
                   status_bar |-> [kind |-> "ready"],
                   dialog |-> NoDialog,
                   processing |-> FALSE]]

\* the execute calls that can be in progress at once
Calls == {1, 2}

\* a call that has not been made
NoCall == [pc |-> "none"]

\* two engines, the first one inside a main window
Constructed ==
    LET first == MarkovEngine_init(<< >>)
        second == MarkovEngine_init(first.heap)
        window == MarkovApp_init(second.heap, 1)
    IN  [heap |-> window.heap,
         engines |-> <<first.self, second.self>>,
         app |-> window.self]

\* MarkovEngine.__init__
Init ==
    /\ rules = << >>
    /\ history = << >>
    /\ stats = reset_stats
    /\ max_iterations \in MaxIterationsChoices
    /\ max_output_length = MaxOut
    /\ pc = "idle"
    /\ input_text = << >>
    /\ work_string = << >>
    /\ iteration = 0
    /\ warnings = << >>
    /\ result = NoResult
    /\ raised = NoError
    /\ add_error = NoError
    /\ load_error = NoError
    /\ saved = NoFile
    /\ adds = 0
    /\ heap = Constructed.heap
    /\ engines = Constructed.engines
    /\ calls = [c \in Calls |-> NoCall]
    /\ returned = << >>
    /\ app = Constructed.app

\* ---------------------------------------------------- ExecutionHistory ----
\* ExecutionHistory.add_entry: the appended entry
HistoryEntry(iter, rule, position, before, after) ==
    [iteration |-> iter,
     rule_pattern |-> rule.pattern,
     rule_replacement |-> rule.replacement,
     is_final |-> rule.is_final,
     position |-> position,
     before |-> before,
     after |-> after,
     rule_applied_count |-> rule.applied_count]

\* get_stats with the three keys, at 0 and false, for an empty history too
get_stats_keys_when_empty(entries) ==
    [total_steps |-> Len(entries),
     final_rule_applied |-> \E k \in 1..Len(entries) : entries[k].is_final,
     unique_rules_applied |->
         Cardinality({ entries[k].rule_pattern : k \in 1..Len(entries) })]

\* get_stats with final_rule_applied true only when every entry is final
get_stats_all_final(entries) ==
    IF entries = << >> THEN << >>
    ELSE [total_steps |-> Len(entries),
          final_rule_applied |-> \A k \in 1..Len(entries) : entries[k].is_final,
          unique_rules_applied |->
              Cardinality({ entries[k].rule_pattern : k \in 1..Len(entries) })]

\* ExecutionHistory.get_stats
get_stats(entries) ==
    IF entries = << >> THEN << >>
    ELSE [total_steps |-> Len(entries),
          final_rule_applied |-> \E k \in 1..Len(entries) : entries[k].is_final,
          unique_rules_applied |->
              Cardinality({ entries[k].rule_pattern : k \in 1..Len(entries) })]

\* --------------------------------------------------------- MarkovEngine ----
\* add_rule with the rule appended before it is validated
AddRuleAppendFirst(pattern, replacement, is_final) ==
    /\ pc = "idle"
    /\ adds < MaxAdds
    /\ adds' = adds + 1
    /\ rules' = Append(rules, Rule(pattern, replacement, is_final))
    /\ LET errors == validate_rule(pattern, replacement, is_final)
       IN  add_error' = IF errors # << >>
                        THEN [kind |-> "RuleValidationError", limit |-> "none",
                              errors |-> errors]
                        ELSE NoError
    /\ UNCHANGED objects
    /\ UNCHANGED <<history, stats, max_iterations, max_output_length, pc,
                   input_text, work_string, iteration, warnings, result, raised,
                   load_error, saved>>

\* MarkovEngine.add_rule
AddRule(pattern, replacement, is_final) ==
    /\ pc = "idle"
    /\ adds < MaxAdds
    /\ adds' = adds + 1
    /\ LET errors == validate_rule(pattern, replacement, is_final)
       IN  IF errors # << >>
           THEN /\ add_error' = [kind |-> "RuleValidationError", limit |-> "none",
                                  errors |-> errors]
                /\ UNCHANGED rules
           ELSE /\ rules' = Append(rules, Rule(pattern, replacement, is_final))
                /\ add_error' = NoError
    /\ UNCHANGED objects
    /\ UNCHANGED <<history, stats, max_iterations, max_output_length, pc,
                   input_text, work_string, iteration, warnings, result, raised,
                   load_error, saved>>

\* clear_rules with the history cleared too
ClearRulesAndHistory ==
    /\ pc = "idle"
    /\ rules' = << >>
    /\ history' = << >>
    /\ UNCHANGED objects
    /\ UNCHANGED <<stats, max_iterations, max_output_length, pc,
                   input_text, work_string, iteration, warnings, result, raised,
                   add_error, load_error, saved, adds>>

\* MarkovEngine.clear_rules
ClearRules ==
    /\ pc = "idle"
    /\ rules' = << >>
    /\ UNCHANGED objects
    /\ UNCHANGED <<history, stats, max_iterations, max_output_length, pc,
                   input_text, work_string, iteration, warnings, result, raised,
                   add_error, load_error, saved, adds>>

\* from_dict without the is_final argument: every decoded rule is non-final
from_dict_not_final(data) ==
    Rule(data.pattern, data.replacement, FALSE)

\* Rule.from_dict: cls(data['pattern'], data['replacement'], data.get('is_final', False))
from_dict(data) ==
    Rule(data.pattern, data.replacement,
         IF "is_final" \in DOMAIN data THEN data.is_final ELSE FALSE)

\* the key from_dict fails on (KeyError), or "none"
MissingKey(data) ==
    IF "pattern" \notin DOMAIN data THEN "pattern"
    ELSE IF "replacement" \notin DOMAIN data THEN "replacement"
    ELSE "none"

\* load_rules, lines 238-239: the rules appended before the loop ends or from_dict
\* raises
RECURSIVE LoadedRules(_, _)
LoadedRules(rules_data, k) ==
    IF k > Len(rules_data) \/ MissingKey(rules_data[k]) # "none" THEN << >>
    ELSE <<from_dict(rules_data[k])>> \o LoadedRules(rules_data, k + 1)

\* load_rules with every record decoded before the rule list is replaced: a bad
\* record leaves the list as it was
LoadRulesAtomic(file) ==
    /\ pc = "idle"
    /\ adds < MaxAdds
    /\ adds' = adds + 1
    /\ IF ~file.readable
       THEN /\ load_error' = [kind |-> "OSError or JSONDecodeError", key |-> "none"]
            /\ UNCHANGED rules
       ELSE LET loaded == LoadedRules(file.records, 1)
            IN  IF Len(loaded) < Len(file.records)
                THEN /\ load_error' =
                           [kind |-> "KeyError",
                            key |-> MissingKey(file.records[Len(loaded) + 1])]
                     /\ UNCHANGED rules
                ELSE /\ rules' = loaded
                     /\ load_error' = NoError
    /\ UNCHANGED objects
    /\ UNCHANGED <<history, stats, max_iterations, max_output_length, pc,
                   input_text, work_string, iteration, warnings, result, raised,
                   add_error, saved>>

\* MarkovEngine.load_rules
LoadRules(file) ==
    /\ pc = "idle"
    /\ adds < MaxAdds
    /\ adds' = adds + 1
    /\ IF ~file.readable
       THEN /\ load_error' = [kind |-> "OSError or JSONDecodeError", key |-> "none"]
            /\ UNCHANGED rules
       ELSE LET loaded == LoadedRules(file.records, 1)
            IN  /\ rules' = loaded
                /\ load_error' =
                      IF Len(loaded) < Len(file.records)
                      THEN [kind |-> "KeyError",
                            key |-> MissingKey(file.records[Len(loaded) + 1])]
                      ELSE NoError
    /\ UNCHANGED objects
    /\ UNCHANGED <<history, stats, max_iterations, max_output_length, pc,
                   input_text, work_string, iteration, warnings, result, raised,
                   add_error, saved>>

\* Rule.to_dict
to_dict(rule) ==
    [pattern |-> rule.pattern, replacement |-> rule.replacement,
     is_final |-> rule.is_final]

\* MarkovEngine.save_rules: the file holds the list of the rules' records
SaveRules ==
    /\ pc = "idle"
    /\ saved' = [readable |-> TRUE,
                 records |-> [k \in 1..Len(rules) |-> to_dict(rules[k])]]
    /\ UNCHANGED objects
    /\ UNCHANGED <<rules, history, stats, max_iterations, max_output_length, pc,
                   input_text, work_string, iteration, warnings, result, raised,
                   add_error, load_error, adds>>

\* MarkovEngine.validate_rule_set
validate_rule_set(rs) ==
    detect_potential_cycles(
        [k \in 1..Len(rs) |-> <<rs[k].pattern, rs[k].replacement, rs[k].is_final>>])

\* MarkovEngine._build_result
\* _build_result with active_rules_count counting the rules whose pattern is in
\* the history
build_result_active_by_pattern(output, status, iterations, warns, rs, entries, st) ==
    [output |-> output,
     status |-> status,
     iterations |-> iterations,
     warnings |-> warns,
     statistics |->
        (get_stats(entries) @@ st)
        @@ [rules_count |-> Len(rs),
            active_rules_count |->
                Cardinality({ k \in 1..Len(rs) :
                                \E n \in 1..Len(entries) :
                                   entries[n].rule_pattern = rs[k].pattern })],
     history |-> entries,
     rule_usage |->
        [k \in 1..Len(rs) |->
            [pattern |-> rs[k].pattern, replacement |-> rs[k].replacement,
             is_final |-> rs[k].is_final, applied_count |-> rs[k].applied_count]]]

build_result_zero_based(output, status, iterations, warns, rs, entries, st) ==
    [output |-> output,
     status |-> status,
     iterations |-> iterations - 1,
     warnings |-> warns,
     statistics |->
        (get_stats(entries) @@ st)
        @@ [rules_count |-> Len(rs),
            active_rules_count |->
                Cardinality({ k \in 1..Len(rs) : rs[k].applied_count > 0 })],
     history |-> entries,
     rule_usage |->
        [k \in 1..Len(rs) |->
            [pattern |-> rs[k].pattern, replacement |-> rs[k].replacement,
             is_final |-> rs[k].is_final, applied_count |-> rs[k].applied_count]]]

build_result(output, status, iterations, warns, rs, entries, st) ==
    [output |-> output,
     status |-> status,
     iterations |-> iterations,
     warnings |-> warns,
     statistics |->
        (get_stats(entries) @@ st)
        @@ [rules_count |-> Len(rs),
            active_rules_count |->
                Cardinality({ k \in 1..Len(rs) : rs[k].applied_count > 0 })],
     history |-> entries,
     rule_usage |->
        [k \in 1..Len(rs) |->
            [pattern |-> rs[k].pattern, replacement |-> rs[k].replacement,
             is_final |-> rs[k].is_final, applied_count |-> rs[k].applied_count]]]

\* the reset before the loop without the reset of the rules' counters
ExecuteBeginKeepCounts(text) ==
    /\ pc = "idle"
    /\ stats.total_executions < MaxExecs
    /\ history' = << >>
    /\ input_text' = text
    /\ work_string' = text
    /\ iteration' = 0
    /\ stats' = [stats EXCEPT !.total_executions = @ + 1]
    /\ warnings' = validate_rule_set(rules)
    /\ raised' = NoError
    /\ pc' = "loop"
    /\ UNCHANGED objects
    /\ UNCHANGED <<rules, max_iterations, max_output_length, result, add_error,
                   load_error, saved, adds>>

\* the reset before the loop without self.history.clear()
ExecuteBeginKeepHistory(text) ==
    /\ pc = "idle"
    /\ stats.total_executions < MaxExecs
    /\ rules' = [k \in 1..Len(rules) |-> [rules[k] EXCEPT !.applied_count = 0]]
    /\ input_text' = text
    /\ work_string' = text
    /\ iteration' = 0
    /\ stats' = [stats EXCEPT !.total_executions = @ + 1]
    /\ warnings' = validate_rule_set(rules)
    /\ raised' = NoError
    /\ pc' = "loop"
    /\ UNCHANGED objects
    /\ UNCHANGED <<history, max_iterations, max_output_length, result, add_error,
                   load_error, saved, adds>>

\* the reset before the loop made only when the call before it did not fail
ExecuteBeginResetAfterSuccess(text) ==
    /\ pc = "idle"
    /\ stats.total_executions < MaxExecs
    /\ history' = IF raised = NoError THEN << >> ELSE history
    /\ rules' = IF raised = NoError
                THEN [k \in 1..Len(rules) |-> [rules[k] EXCEPT !.applied_count = 0]]
                ELSE rules
    /\ input_text' = text
    /\ work_string' = text
    /\ iteration' = 0
    /\ stats' = [stats EXCEPT !.total_executions = @ + 1]
    /\ warnings' = validate_rule_set(rules)
    /\ raised' = NoError
    /\ pc' = "loop"
    /\ UNCHANGED objects
    /\ UNCHANGED <<max_iterations, max_output_length, result, add_error,
                   load_error, saved, adds>>

\* the reset before the loop with a rule set that has warnings refused
\* (CycleDetectionError, which the module imports and never raises)
ExecuteBeginRaiseOnWarnings(text) ==
    /\ pc = "idle"
    /\ stats.total_executions < MaxExecs
    /\ history' = << >>
    /\ rules' = [k \in 1..Len(rules) |-> [rules[k] EXCEPT !.applied_count = 0]]
    /\ input_text' = text
    /\ work_string' = text
    /\ iteration' = 0
    /\ stats' = [stats EXCEPT !.total_executions = @ + 1]
    /\ warnings' = validate_rule_set(rules)
    /\ IF validate_rule_set(rules) # << >>
       THEN /\ raised' = [kind |-> "CycleDetectionError", limit |-> "none"]
            /\ pc' = "idle"
       ELSE /\ raised' = NoError
            /\ pc' = "loop"
    /\ UNCHANGED objects
    /\ UNCHANGED <<max_iterations, max_output_length, result, add_error,
                   load_error, saved, adds>>

\* the reset before the loop made by building the rules anew, is_final left at
\* its default
ExecuteBeginRebuildRules(text) ==
    /\ pc = "idle"
    /\ stats.total_executions < MaxExecs
    /\ history' = << >>
    /\ rules' = [k \in 1..Len(rules) |->
                    Rule(rules[k].pattern, rules[k].replacement, FALSE)]
    /\ input_text' = text
    /\ work_string' = text
    /\ iteration' = 0
    /\ stats' = [stats EXCEPT !.total_executions = @ + 1]
    /\ warnings' = validate_rule_set(rules)
    /\ raised' = NoError
    /\ pc' = "loop"
    /\ UNCHANGED objects
    /\ UNCHANGED <<max_iterations, max_output_length, result, add_error,
                   load_error, saved, adds>>

\* the reset before the loop with the lifetime counters started again
ExecuteBeginResetStats(text) ==
    /\ pc = "idle"
    /\ stats.total_executions < MaxExecs
    /\ history' = << >>
    /\ rules' = [k \in 1..Len(rules) |-> [rules[k] EXCEPT !.applied_count = 0]]
    /\ input_text' = text
    /\ work_string' = text
    /\ iteration' = 0
    /\ stats' = [reset_stats EXCEPT !.total_executions = 1]
    /\ warnings' = validate_rule_set(rules)
    /\ raised' = NoError
    /\ pc' = "loop"
    /\ UNCHANGED objects
    /\ UNCHANGED <<max_iterations, max_output_length, result, add_error,
                   load_error, saved, adds>>

\* execute, lines 136-148: the reset before the loop
ExecuteBegin(text) ==
    /\ pc = "idle"
    /\ stats.total_executions < MaxExecs
    /\ history' = << >>
    /\ rules' = [k \in 1..Len(rules) |-> [rules[k] EXCEPT !.applied_count = 0]]
    /\ input_text' = text
    /\ work_string' = text
    /\ iteration' = 0
    /\ stats' = [stats EXCEPT !.total_executions = @ + 1]
    /\ warnings' = validate_rule_set(rules)
    /\ raised' = NoError
    /\ pc' = "loop"
    /\ UNCHANGED objects
    /\ UNCHANGED <<max_iterations, max_output_length, result, add_error,
                   load_error, saved, adds>>

\* the application with the history entry added before applied_count is increased
ApplyRuleEntryBeforeCount(f, i, position, iter) ==
    LET rule == f.rules[i]
        after == Splice(f.work_string, position, rule.pattern, rule.replacement)
        counted == [rule EXCEPT !.applied_count = @ + 1]
    IN  [f EXCEPT !.work_string = after,
                  !.rules[i] = counted,
                  !.stats.total_replacements = @ + 1,
                  !.applied_this_iteration = TRUE,
                  !.history = Append(@, HistoryEntry(iter, rule, position,
                                                     f.work_string, after))]

\* the application with the entry's before read after work_string is assigned
ApplyRuleBeforeOverwritten(f, i, position, iter) ==
    LET rule == f.rules[i]
        after == Splice(f.work_string, position, rule.pattern, rule.replacement)
        counted == [rule EXCEPT !.applied_count = @ + 1]
    IN  [f EXCEPT !.work_string = after,
                  !.rules[i] = counted,
                  !.stats.total_replacements = @ + 1,
                  !.applied_this_iteration = TRUE,
                  !.history = Append(@, HistoryEntry(iter, counted, position, after, after))]

\* execute, lines 159-171: the rule at index i is applied at `position`
ApplyRule(f, i, position, iter) ==
    LET rule == f.rules[i]
        before == f.work_string
        after == Splice(before, position, rule.pattern, rule.replacement)
        counted == [rule EXCEPT !.applied_count = @ + 1]
    IN  [f EXCEPT !.work_string = after,
                  !.rules[i] = counted,
                  !.stats.total_replacements = @ + 1,
                  !.applied_this_iteration = TRUE,
                  !.history = Append(@, HistoryEntry(iter, counted, position, before, after))]

\* the checks after an application without the output-length check
AfterApplyNoLimit(f, rule) ==
    IF rule.is_final THEN "return_final" ELSE "break"

\* the checks after an application without the final-rule return
AfterApplyIgnoreFinal(f, rule) ==
    IF Len(f.work_string) > max_output_length THEN "raise_output"
    ELSE "break"

\* the checks after an application with the final-rule return made first
AfterApplyFinalFirst(f, rule) ==
    IF rule.is_final THEN "return_final"
    ELSE IF Len(f.work_string) > max_output_length THEN "raise_output"
    ELSE "break"

\* execute, lines 173-184: how the for loop is left after an application
AfterApply(f, rule) ==
    IF Len(f.work_string) > max_output_length THEN "raise_output"
    ELSE IF rule.is_final THEN "return_final"
    ELSE "break"

\* the test with 0 taken for str.find's "not found"
FoundNonZero(position) == position # 0

\* execute, line 158: if position != -1
Found(position) == position # -1

\* the for loop with the output-length check made before the entry is recorded
RECURSIVE ForRulesCheckFirst(_, _, _)
ForRulesCheckFirst(f, i, iter) ==
    IF i > Len(f.rules) THEN f
    ELSE LET position == Find(f.work_string, f.rules[i].pattern)
         IN  IF Found(position)
             THEN LET g == ApplyRule(f, i, position, iter)
                      how == AfterApply(g, f.rules[i])
                  IN  IF how = "raise_output"
                      THEN [g EXCEPT !.exit = how, !.history = f.history]
                      ELSE [g EXCEPT !.exit = how]
             ELSE ForRulesCheckFirst(f, i + 1, iter)

\* the for loop with the rule chosen by match position instead of rule order:
\* among the rules from index i on, the one whose pattern occurs furthest left
ForRulesByPosition(f, i, iter) ==
    LET matching == { k \in i..Len(f.rules) :
                        Find(f.work_string, f.rules[k].pattern) # -1 }
        leftmost == Min({ Find(f.work_string, f.rules[k].pattern) : k \in matching })
        best == Min({ k \in matching :
                        Find(f.work_string, f.rules[k].pattern) = leftmost })
    IN  IF matching = {} THEN f
        ELSE LET g == ApplyRule(f, best, leftmost, iter)
             IN  [g EXCEPT !.exit = AfterApply(g, f.rules[best])]

\* the for loop without its break: after a non-final application the scan goes on
\* with the next rule against the new string
RECURSIVE ForRulesNoBreak(_, _, _)
ForRulesNoBreak(f, i, iter) ==
    IF i > Len(f.rules) THEN f
    ELSE LET position == Find(f.work_string, f.rules[i].pattern)
         IN  IF Found(position)
             THEN LET g == ApplyRule(f, i, position, iter)
                      how == AfterApply(g, f.rules[i])
                  IN  IF how = "break"
                      THEN ForRulesNoBreak([g EXCEPT !.exit = how], i + 1, iter)
                      ELSE [g EXCEPT !.exit = how]
             ELSE ForRulesNoBreak(f, i + 1, iter)

\* the for loop over reversed(self.rules): among the rules from index i on, the
\* one of highest index whose pattern occurs is applied
ForRulesReversed(f, i, iter) ==
    LET matching == { k \in i..Len(f.rules) :
                        Find(f.work_string, f.rules[k].pattern) # -1 }
        best == Max(matching)
    IN  IF matching = {} THEN f
        ELSE LET g == ApplyRule(f, best, Find(f.work_string, f.rules[best].pattern),
                                iter)
             IN  [g EXCEPT !.exit = AfterApply(g, f.rules[best])]

\* execute, lines 155-184: the for loop over self.rules from index i on
RECURSIVE ForRules(_, _, _)
ForRules(f, i, iter) ==
    IF i > Len(f.rules) THEN f
    ELSE LET position == Find(f.work_string, f.rules[i].pattern)
         IN  IF Found(position)
             THEN LET g == ApplyRule(f, i, position, iter)
                  IN  [g EXCEPT !.exit = AfterApply(g, f.rules[i])]
             ELSE ForRules(f, i + 1, iter)

\* the while test off by one
LoopTestInclusive == iteration <= max_iterations

\* execute, line 151: the while test
LoopTest == iteration < max_iterations

\* execute, lines 151-188: one pass of the while loop
ExecuteIterate ==
    /\ pc = "loop"
    /\ LoopTest
    /\ LET iter == iteration + 1
           f == ForRules([work_string |-> work_string, rules |-> rules,
                          history |-> history, stats |-> stats,
                          applied_this_iteration |-> FALSE, exit |-> "exhausted"],
                         1, iter)
       IN  /\ iteration' = iter
           /\ work_string' = f.work_string
           /\ rules' = f.rules
           /\ history' = f.history
           /\ stats' = f.stats
           /\ CASE f.exit = "raise_output" ->
                    /\ raised' = [kind |-> "ExecutionLimitError", limit |-> "output",
                                  observed |-> Len(f.work_string),
                                  threshold |-> max_output_length]
                    /\ pc' = "idle"
                    /\ UNCHANGED result
                [] f.exit = "return_final" ->
                    /\ result' = build_result(f.work_string, "completed_final", iter,
                                              warnings, f.rules, f.history, f.stats)
                    /\ pc' = "idle"
                    /\ UNCHANGED raised
                [] OTHER ->
                    IF ~f.applied_this_iteration
                    THEN /\ result' = build_result(f.work_string, "completed", iter,
                                                   warnings, f.rules, f.history, f.stats)
                         /\ pc' = "idle"
                         /\ UNCHANGED raised
                    ELSE UNCHANGED <<pc, result, raised>>
    /\ UNCHANGED objects
    /\ UNCHANGED <<max_iterations, max_output_length, input_text, warnings,
                   add_error, load_error, saved, adds>>

\* the failure counted in the wrong counter
CountCycleAsExecution(st) == [st EXCEPT !.total_executions = @ + 1]

\* execute, line 191: self.stats['total_cycles_detected'] += 1
CountCycle(st) == [st EXCEPT !.total_cycles_detected = @ + 1]

\* the failure of the while test with a last scan: a working string that no rule
\* matches is returned as Completed
ExecuteIterationLimitUnlessNormalForm ==
    /\ pc = "loop"
    /\ ~LoopTest
    /\ IF \A k \in 1..Len(rules) : ~Found(Find(work_string, rules[k].pattern))
       THEN /\ result' = build_result(work_string, "completed", iteration,
                                      warnings, rules, history, stats)
            /\ UNCHANGED <<stats, raised>>
       ELSE /\ stats' = CountCycle(stats)
            /\ raised' = [kind |-> "ExecutionLimitError", limit |-> "iterations",
                          threshold |-> max_iterations]
            /\ UNCHANGED result
    /\ pc' = "idle"
    /\ UNCHANGED objects
    /\ UNCHANGED <<rules, history, max_iterations, max_output_length, input_text,
                   work_string, iteration, warnings, add_error, load_error,
                   saved, adds>>

\* execute, lines 190-194: the while test fails
ExecuteIterationLimit ==
    /\ pc = "loop"
    /\ ~LoopTest
    /\ stats' = CountCycle(stats)
    /\ raised' = [kind |-> "ExecutionLimitError", limit |-> "iterations",
                  threshold |-> max_iterations]
    /\ pc' = "idle"
    /\ UNCHANGED objects
    /\ UNCHANGED <<rules, history, max_iterations, max_output_length, input_text,
                   work_string, iteration, warnings, result, add_error, load_error,
                   saved, adds>>

Next ==
    \/ \E rule \in RuleChoices : AddRule(rule[1], rule[2], rule[3])
    \/ ClearRules
    \/ \E file \in FileChoices : LoadRules(file)
    \/ \E text \in InputChoices : ExecuteBegin(text)
    \/ ExecuteIterate
    \/ ExecuteIterationLimit

Spec == Init /\ [][Next]_vars

\* The engine with its rules saved to and loaded from a file. The caller offers
\* fewer rules and one input, and loads the file it saved or one of FileChoices.
FileRuleChoices ==
    { << <<"a">>, <<"b">>, FALSE >>,
      << <<"b">>, << >>, TRUE >>,
      << << >>, <<"b">>, TRUE >> }

FileInputChoices == { <<"a", "b", "a">> }

FileNext ==
    \/ \E rule \in FileRuleChoices : AddRule(rule[1], rule[2], rule[3])
    \/ SaveRules
    \/ LoadRules(saved)
    \/ \E file \in FileChoices : LoadRules(file)
    \/ \E text \in FileInputChoices : ExecuteBegin(text)
    \/ ExecuteIterate
    \/ ExecuteIterationLimit

FileSpec == Init /\ [][FileNext]_vars

\* The engine with rules of empty pattern: a non-final one that prepends a
\* character, a non-final one that changes nothing, a non-final rule that makes
\* the string longer and a final rule, in any order.
EmptyPatternRuleChoices ==
    { << << >>, <<"b">>, FALSE >>,
      << << >>, << >>, FALSE >>,
      << <<"a">>, <<"a", "a">>, FALSE >>,
      << <<"b">>, << >>, TRUE >> }

EmptyPatternNext ==
    \/ \E rule \in EmptyPatternRuleChoices : AddRule(rule[1], rule[2], rule[3])
    \/ \E text \in InputChoices : ExecuteBegin(text)
    \/ ExecuteIterate
    \/ ExecuteIterationLimit

EmptyPatternSpec == Init /\ [][EmptyPatternNext]_vars

\* ----------------------------------------- engines reached by identity ----
\* the heap h with the object id holding value
Store(h, id, value) == [h EXCEPT ![id] = value]

\* MarkovEngine.add_rule on the engine e: the heap after it, and what it raised
add_rule(h, e, pattern, replacement, is_final) ==
    LET errors == validate_rule(pattern, replacement, is_final)
    IN  IF errors # << >>
        THEN [heap |-> h,
              error |-> [kind |-> "RuleValidationError", limit |-> "none",
                         errors |-> errors]]
        ELSE [heap |-> Store(h, e.rules,
                             Append(h[e.rules], Rule(pattern, replacement, is_final))),
              error |-> NoError]

\* MarkovEngine.clear_rules on the engine e: self.rules.clear()
clear_rules(h, e) == Store(h, e.rules, << >>)

\* an execute call is in progress on the engine e
Running(e) == \E c \in Calls : calls[c].pc = "loop" /\ calls[c].self = e

\* execute with a guard against re-entry: the reset is left out while another
\* call is in progress on the engine
execute_begin_guarded(h, e, text) ==
    LET cleared == IF Running(e) THEN h ELSE Store(h, e.history, << >>)
        zeroed == IF Running(e) THEN h
                  ELSE Store(cleared, e.rules,
                             [k \in 1..Len(h[e.rules]) |->
                                 [h[e.rules][k] EXCEPT !.applied_count = 0]])
        counted == Store(zeroed, e.stats,
                         [h[e.stats] EXCEPT !.total_executions = @ + 1])
    IN  [heap |-> counted,
         call |-> [self |-> e,
                   pc |-> "loop",
                   input_text |-> text,
                   work_string |-> text,
                   iteration |-> 0,
                   warnings |-> validate_rule_set(h[e.rules]),
                   result |-> NoResult,
                   raised |-> NoError]]

\* execute, lines 136-148, on the engine e: the heap after the reset and the
\* frame of the call, which holds its locals
execute_begin(h, e, text) ==
    LET cleared == Store(h, e.history, << >>)
        zeroed == Store(cleared, e.rules,
                        [k \in 1..Len(h[e.rules]) |->
                            [h[e.rules][k] EXCEPT !.applied_count = 0]])
        counted == Store(zeroed, e.stats,
                         [h[e.stats] EXCEPT !.total_executions = @ + 1])
    IN  [heap |-> counted,
         call |-> [self |-> e,
                   pc |-> "loop",
                   input_text |-> text,
                   work_string |-> text,
                   iteration |-> 0,
                   warnings |-> validate_rule_set(h[e.rules]),
                   result |-> NoResult,
                   raised |-> NoError]]

\* 'history': self.history.entries without the slice: the list itself
entries_alias(h, id) == [heap |-> h, id |-> id]

\* _build_result, line 211: self.history.entries[:] is a new list
entries_copy(h, id) == Alloc(h, h[id])

\* _build_result on the engine e: the result's history is the identity of a list
build_result_of(h, e, output, status, iterations, warns) ==
    LET built == build_result(output, status, iterations, warns,
                              h[e.rules], h[e.history], h[e.stats])
        copy == entries_copy(h, e.history)
    IN  [heap |-> copy.heap, result |-> [built EXCEPT !.history = copy.id]]

\* execute, lines 151-194, for the call with the frame c: one pass of the while
\* loop, or the failure of its test
execute_iterate(h, c) ==
    LET e == c.self
    IN  IF ~(c.iteration < max_iterations)
        THEN [heap |-> Store(h, e.stats, CountCycle(h[e.stats])),
              call |-> [c EXCEPT !.pc = "raised",
                                 !.raised = [kind |-> "ExecutionLimitError",
                                             limit |-> "iterations",
                                             threshold |-> max_iterations]]]
        ELSE LET iter == c.iteration + 1
                 f == ForRules([work_string |-> c.work_string, rules |-> h[e.rules],
                                history |-> h[e.history], stats |-> h[e.stats],
                                applied_this_iteration |-> FALSE,
                                exit |-> "exhausted"], 1, iter)
                 written == Store(Store(Store(h, e.rules, f.rules),
                                        e.history, f.history), e.stats, f.stats)
                 d == [c EXCEPT !.iteration = iter, !.work_string = f.work_string]
                 returns(status) ==
                     LET b == build_result_of(written, e, f.work_string, status,
                                              iter, c.warnings)
                     IN  [heap |-> b.heap,
                          call |-> [d EXCEPT !.pc = "returned", !.result = b.result]]
             IN  IF f.exit = "raise_output"
                 THEN [heap |-> written,
                       call |-> [d EXCEPT !.pc = "raised",
                                          !.raised = [kind |-> "ExecutionLimitError",
                                                      limit |-> "output",
                                                      observed |-> Len(f.work_string),
                                                      threshold |-> max_output_length]]]
                 ELSE IF f.exit = "return_final" THEN returns("completed_final")
                 ELSE IF ~f.applied_this_iteration THEN returns("completed")
                 ELSE [heap |-> written, call |-> d]

\* execute, lines 151-194: the while loop run to its end
RECURSIVE execute_loop(_, _)
execute_loop(h, c) ==
    IF c.pc # "loop" THEN [heap |-> h, call |-> c]
    ELSE LET s == execute_iterate(h, c) IN execute_loop(s.heap, s.call)

\* MarkovEngine.execute on the engine e, from the call to its end
execute(h, e, text) ==
    LET b == execute_begin(h, e, text) IN execute_loop(b.heap, b.call)

\* add_rule on the engine k, between the calls on it, with a rule that the
\* engine does not hold yet
EngineAddRule(k, pattern, replacement, is_final) ==
    /\ ~Running(engines[k])
    /\ \A n \in 1..Len(heap[engines[k].rules]) :
          heap[engines[k].rules][n].pattern # pattern
    /\ LET r == add_rule(heap, engines[k], pattern, replacement, is_final)
       IN  /\ heap' = r.heap
           /\ add_error' = r.error
    /\ UNCHANGED <<engines, calls, returned, app>>
    /\ UNCHANGED <<rules, history, stats, max_iterations, max_output_length, pc,
                   input_text, work_string, iteration, warnings, result, raised,
                   load_error, saved, adds>>

\* execute(text) is called on the engine k, in the place c of a caller
CallBegin(c, k, text) ==
    /\ calls[c].pc # "loop"
    /\ c = 1 \/ calls[1].pc # "none"
    /\ heap[engines[1].stats].total_executions
         + heap[engines[2].stats].total_executions < MaxExecs
    /\ LET b == execute_begin(heap, engines[k], text)
       IN  /\ heap' = b.heap
           /\ calls' = [calls EXCEPT ![c] = b.call]
    /\ UNCHANGED <<engines, returned, app>>
    /\ UNCHANGED direct

\* the call in the place c makes one pass of its loop, or ends
CallIterate(c) ==
    /\ calls[c].pc = "loop"
    /\ LET s == execute_iterate(heap, calls[c])
       IN  /\ heap' = s.heap
           /\ calls' = [calls EXCEPT ![c] = s.call]
           /\ returned' = IF s.call.pc = "returned"
                          THEN Append(returned, s.call)
                          ELSE returned
    /\ UNCHANGED <<engines, app>>
    /\ UNCHANGED direct

\* HistoryViewer.set_history with the history list of the result returned last
SetHistory ==
    /\ returned # << >>
    /\ app.history_data # returned[Len(returned)].result.history
    /\ app' = [app EXCEPT !.history_data = returned[Len(returned)].result.history]
    /\ UNCHANGED <<heap, engines, calls, returned>>
    /\ UNCHANGED direct

\* HistoryViewer._clear_history: self.history_data.clear()
ClearHistory ==
    /\ heap' = Store(heap, app.history_data, << >>)
    /\ UNCHANGED <<engines, calls, returned, app>>
    /\ UNCHANGED direct

\* Two engines with their own rules, each called from two places whose loops
\* interleave at the granularity of one iteration.
InstanceRuleChoices ==
    { << <<"a">>, <<"b">>, FALSE >>,
      << <<"b">>, << >>, TRUE >> }

InstanceInputChoices == { <<"a">>, <<"a", "b">> }

InstancesNext ==
    \/ \E k \in {1, 2} : \E rule \in InstanceRuleChoices :
          EngineAddRule(k, rule[1], rule[2], rule[3])
    \/ \E c \in Calls : \E k \in {1, 2} : \E text \in InstanceInputChoices :
          CallBegin(c, k, text)
    \/ \E c \in Calls : CallIterate(c)

InstancesSpec == Init /\ [][InstancesNext]_vars

\* execute(text) is called on the engine k while no call is in progress on it
CallBeginIdle(c, k, text) ==
    /\ ~Running(engines[k])
    /\ CallBegin(c, k, text)

\* Two engines with their own rules, each called by one caller at a time: the
\* loops of a call on one engine and of a call on the other interleave.
SeparateNext ==
    \/ \E k \in {1, 2} : \E rule \in InstanceRuleChoices :
          EngineAddRule(k, rule[1], rule[2], rule[3])
    \/ \E c \in Calls : \E k \in {1, 2} : \E text \in InstanceInputChoices :
          CallBeginIdle(c, k, text)
    \/ \E c \in Calls : CallIterate(c)

SeparateSpec == Init /\ [][SeparateNext]_vars

\* One engine called from one place, one call after the other, and the history
\* view shown the history of the result returned last, and cleared.
HistoryViewNext ==
    \/ \E rule \in InstanceRuleChoices : EngineAddRule(1, rule[1], rule[2], rule[3])
    \/ \E text \in InstanceInputChoices : CallBegin(1, 1, text)
    \/ \E c \in Calls : CallIterate(c)
    \/ SetHistory
    \/ ClearHistory

HistoryViewSpec == Init /\ [][HistoryViewNext]_vars

\* ------------------------------------------------------- the main window ----
\* str.strip() of a field value: the blanks at both ends are dropped
RECURSIVE lstrip(_)
lstrip(s) == IF s # << >> /\ Head(s) = " " THEN lstrip(Tail(s)) ELSE s

RECURSIVE rstrip(_)
rstrip(s) ==
    IF s # << >> /\ s[Len(s)] = " " THEN rstrip(SubSeq(s, 1, Len(s) - 1)) ELSE s

strip(s) == rstrip(lstrip(s))

\* _on_rules_changed, lines 188-189: the for loop from the rule at index i on,
\* left at the first add_rule that raises
RECURSIVE AddAll(_, _, _, _)
AddAll(h, e, rs, i) ==
    IF i > Len(rs) THEN [heap |-> h, error |-> NoError]
    ELSE LET r == add_rule(h, e, rs[i].pattern, rs[i].replacement, rs[i].is_final)
         IN  IF r.error.kind # "none" THEN r ELSE AddAll(r.heap, e, rs, i + 1)

\* _on_rules_changed without the call of clear_rules
on_rules_changed_no_clear(h, a, rs) ==
    LET e == engines[a.engine]
        done == AddAll(h, e, rs, 1)
    IN  [heap |-> done.heap,
         app |-> IF done.error.kind = "none"
                 THEN [a EXCEPT !.status_bar = [kind |-> "rules updated",
                                                count |-> Len(rs)]]
                 ELSE [a EXCEPT !.dialog = [kind |-> "error",
                                            cause |-> done.error.kind]]]

\* MarkovApp._on_rules_changed(rules): the heap and the window after it
on_rules_changed(h, a, rs) ==
    LET e == engines[a.engine]
        done == AddAll(clear_rules(h, e), e, rs, 1)
    IN  [heap |-> done.heap,
         app |-> IF done.error.kind = "none"
                 THEN [a EXCEPT !.status_bar = [kind |-> "rules updated",
                                                count |-> Len(rs)]]
                 ELSE [a EXCEPT !.dialog = [kind |-> "error",
                                            cause |-> done.error.kind]]]

\* the editor's list has become rs: _clear_selection where the handler calls it,
\* _hide_error, and the notification of the main window
Notify(rs, selected) ==
    LET n == on_rules_changed(heap, [app EXCEPT !.rules = rs,
                                                !.selected_rule_index = selected,
                                                !.error_text = ""], rs)
    IN  /\ heap' = n.heap
        /\ app' = n.app

\* RuleEditor._add_rule with the field values of the user
AddRuleClicked(pattern_value, replacement_value, is_final) ==
    /\ Len(app.rules) < MaxAdds
    /\ IF pattern_value = << >>
       THEN /\ app' = [app EXCEPT !.error_text = "empty pattern"]
            /\ UNCHANGED heap
       ELSE Notify(Append(app.rules,
                          Rule(strip(pattern_value), replacement_value, is_final)),
                   app.selected_rule_index)
    /\ UNCHANGED <<engines, calls, returned>>
    /\ UNCHANGED direct

\* RuleEditor._select_rule: a click on the card of the rule at index
SelectRule(index) ==
    /\ index \in 1..Len(app.rules)
    /\ app' = [app EXCEPT !.selected_rule_index = index, !.error_text = ""]
    /\ UNCHANGED <<heap, engines, calls, returned>>
    /\ UNCHANGED direct

\* RuleEditor._update_rule with the field values of the user
UpdateRuleClicked(pattern_value, replacement_value, is_final) ==
    /\ IF app.selected_rule_index = 0
       THEN /\ app' = [app EXCEPT !.error_text = "no rule selected"]
            /\ UNCHANGED heap
       ELSE IF strip(pattern_value) = << >>
       THEN /\ app' = [app EXCEPT !.error_text = "empty pattern"]
            /\ UNCHANGED heap
       ELSE Notify([app.rules EXCEPT ![app.selected_rule_index] =
                       Rule(strip(pattern_value), replacement_value, is_final)], 0)
    /\ UNCHANGED <<engines, calls, returned>>
    /\ UNCHANGED direct

\* RuleEditor._delete_rule
DeleteRuleClicked ==
    /\ IF app.selected_rule_index = 0
       THEN /\ app' = [app EXCEPT !.error_text = "no rule selected"]
            /\ UNCHANGED heap
       ELSE Notify([k \in 1..(Len(app.rules) - 1) |->
                       IF k < app.selected_rule_index THEN app.rules[k]
                       ELSE app.rules[k + 1]], 0)
    /\ UNCHANGED <<engines, calls, returned>>
    /\ UNCHANGED direct

\* RuleEditor._clear_rules: nothing happens to an empty list
ClearRulesClicked ==
    /\ app.rules # << >>
    /\ Notify(<< >>, 0)
    /\ UNCHANGED <<engines, calls, returned>>
    /\ UNCHANGED direct

\* RuleEditor.set_rules with the rules of a preset, an import or a project
SetRules(rs) ==
    /\ Notify(rs, 0)
    /\ UNCHANGED <<engines, calls, returned>>
    /\ UNCHANGED direct

\* _execute_algorithm, lines 250-266: what follows the return of the result r
AfterResult(a, r) ==
    LET shown == [a EXCEPT !.output_text = r.output,
                           !.history_data = r.history]
    IN  IF "iterations" \in DOMAIN r.statistics
        THEN LET told == [shown EXCEPT !.status_bar =
                             [kind |-> "completed",
                              iterations |-> r.statistics["iterations"],
                              replacements |-> r.statistics.total_replacements]]
             IN  IF r.warnings # << >>
                 THEN [told EXCEPT !.dialog = [kind |-> "warnings",
                                               warnings |-> r.warnings]]
                 ELSE told
        ELSE [shown EXCEPT !.dialog = [kind |-> "error", cause |-> "KeyError",
                                       key |-> "iterations"],
                           !.status_bar = [kind |-> "error", cause |-> "KeyError",
                                           key |-> "iterations"]]

\* _execute_algorithm, lines 268-279: the handler of ExecutionLimitError
AfterLimitError(a, error) ==
    [a EXCEPT !.dialog = [kind |-> "error", cause |-> error.kind,
                          limit |-> error.limit],
              !.status_bar = [kind |-> "stopped", limit |-> error.limit]]

\* MarkovApp._set_processing
set_processing(a, processing) == [a EXCEPT !.processing = processing]

\* MarkovApp._execute_algorithm with the input field holding input_value
ExecuteClicked(input_value) ==
    /\ heap[engines[app.engine].stats].total_executions < MaxExecs
    /\ LET e == engines[app.engine]
           text == strip(input_value)
       IN  IF text = << >>
           THEN /\ app' = [app EXCEPT !.dialog = [kind |-> "warning",
                                                  cause |-> "empty input"]]
                /\ UNCHANGED <<heap, returned>>
           ELSE IF heap[e.rules] = << >>
           THEN /\ app' = [app EXCEPT !.dialog = [kind |-> "warning",
                                                  cause |-> "no rules"]]
                /\ UNCHANGED <<heap, returned>>
           ELSE LET run == execute(heap, e, text)
                    busy == set_processing(app, TRUE)
                    after == IF run.call.pc = "returned"
                             THEN AfterResult(busy, run.call.result)
                             ELSE AfterLimitError(busy, run.call.raised)
                IN  /\ heap' = run.heap
                    /\ returned' = IF run.call.pc = "returned"
                                   THEN Append(returned, run.call)
                                   ELSE returned
                    /\ app' = set_processing(after, FALSE)
    /\ UNCHANGED <<engines, calls>>
    /\ UNCHANGED direct

\* The field values the user types before a click on add or update: a blank
\* pattern, no pattern, a pattern that the engine refuses.
EditorChoices ==
    { << <<"a">>, <<"b">>, FALSE >>,
      << <<"b">>, << >>, TRUE >>,
      << <<" ">>, <<"b">>, FALSE >>,
      << << >>, <<"b">>, FALSE >>,
      << LongPattern, << >>, FALSE >> }

\* the rule sets of the presets and files: one whose second rule the engine
\* refuses, and an empty one
RuleSetChoices ==
    { << Rule(<<"a">>, <<"b">>, FALSE), Rule(LongPattern, << >>, FALSE),
         Rule(<<"b">>, << >>, TRUE) >>,
      << >> }

\* The rule editor in the main window: the user adds, selects, updates and
\* deletes rules, clears the list and loads rule sets.
RuleEditorNext ==
    \/ \E f \in EditorChoices : AddRuleClicked(f[1], f[2], f[3])
    \/ \E index \in 1..(MaxAdds + 1) : SelectRule(index)
    \/ \E f \in EditorChoices : UpdateRuleClicked(f[1], f[2], f[3])
    \/ DeleteRuleClicked
    \/ ClearRulesClicked
    \/ \E rs \in RuleSetChoices : SetRules(rs)

RuleEditorSpec == Init /\ [][RuleEditorNext]_vars

\* The main window: the user adds rules that the engine accepts and runs the
\* algorithm on the value of the input field.
WindowRuleChoices ==
    { << <<"a">>, <<"b">>, FALSE >>,
      << <<"b">>, << >>, TRUE >>,
      << <<"a">>, <<"a", "a">>, FALSE >> }

WindowInputChoices == { <<"a", " ">>, <<" ">> }

MainWindowNext ==
    \/ \E f \in WindowRuleChoices : AddRuleClicked(f[1], f[2], f[3])
    \/ \E value \in WindowInputChoices : ExecuteClicked(value)

MainWindowSpec == Init /\ [][MainWindowNext]_vars

\* ------------------------------------------------------------- claims ----
\* p occurs somewhere in s
Occurs(s, p) == \E i \in 0..Len(s) : MatchAt(s, p, i)

Last(seq) == seq[Len(seq)]

\* rule k is applied in this step of a running execute
AppliedInStep(k) ==
    /\ pc = "loop"
    /\ k \in 1..Len(rules)
    /\ rules'[k].applied_count = rules[k].applied_count + 1

\* C1: in every iteration of execute the rule applied is the lowest-index rule
\* whose pattern occurs anywhere in the working string: a rule is applied only if
\* its pattern occurs and no lower-index rule's pattern does, and an iteration in
\* which some pattern occurs applies a rule.
C1_PriorityFirst ==
    [][ pc = "loop" =>
          /\ \A k \in 1..Len(rules) :
                AppliedInStep(k) =>
                   /\ Occurs(work_string, rules[k].pattern)
                   /\ \A j \in 1..(k - 1) : ~Occurs(work_string, rules[j].pattern)
          /\ ( /\ iteration' = iteration + 1
               /\ \E k \in 1..Len(rules) : Occurs(work_string, rules[k].pattern) )
             => \E k \in 1..Len(rules) : AppliedInStep(k)
      ]_vars

\* C1 witness: rule 1 was applied although rule 2's pattern occurred further left.
C1_Witness ==
    /\ pc = "loop"
    /\ Len(rules) = 2
    /\ Len(history) = 1
    /\ rules[1].applied_count = 1
    /\ rules[1].pattern # rules[2].pattern
    /\ history[1].rule_pattern = rules[1].pattern
    /\ Find(history[1].before, rules[2].pattern) # -1
    /\ Find(history[1].before, rules[2].pattern) < history[1].position

\* C2: every recorded substitution is at the smallest index at which the rule's
\* pattern occurs in the string before the step, and the string after the step is
\* before[0:pos] + replacement + before[pos+len(pattern):]; during a run the last
\* entry's after is the working string.
C2_LeftmostSplice ==
    /\ \A n \in 1..Len(history) :
          LET e == history[n]
              p == e.rule_pattern
              r == e.rule_replacement
              pos == e.position
          IN  /\ pos \in 0..Len(e.before)
              /\ MatchAt(e.before, p, pos)
              /\ \A i \in 0..(pos - 1) : ~MatchAt(e.before, p, i)
              /\ Len(e.after) = Len(e.before) - Len(p) + Len(r)
              /\ \A i \in 1..pos : e.after[i] = e.before[i]
              /\ \A i \in 1..Len(r) : e.after[pos + i] = r[i]
              /\ \A i \in 1..(Len(e.before) - pos - Len(p)) :
                    e.after[pos + Len(r) + i] = e.before[pos + Len(p) + i]
    /\ (pc = "loop" /\ history # << >>) => Last(history).after = work_string

\* C2 witness: a substitution of a non-empty pattern that occurred at least twice,
\* by a replacement of another length.
C2_Witness ==
    \E n \in 1..Len(history) :
        /\ history[n].rule_pattern # << >>
        /\ Cardinality(Occurrences(history[n].before, history[n].rule_pattern)) >= 2
        /\ Len(history[n].rule_replacement) # Len(history[n].rule_pattern)

\* the sum of applied_count over a rule list
RECURSIVE SumApplied(_)
SumApplied(rs) ==
    IF rs = << >> THEN 0 ELSE rs[1].applied_count + SumApplied(Tail(rs))

\* the rules whose pattern occurs in w
OccurringRules(w) == { k \in 1..Len(rules) : Occurs(w, rules[k].pattern) }

\* C3: each iteration performs at most one substitution (one history entry, one
\* count, one replacement), the k-th entry belongs to iteration k, and the rule
\* applied in an iteration is the first rule, from index 0, whose pattern occurs in
\* the string the previous iteration left.
C3_RestartToTop ==
    [][ pc = "loop" =>
          /\ Len(history') <= Len(history) + 1
          /\ SumApplied(rules') <= SumApplied(rules) + 1
          /\ stats'.total_replacements <= stats.total_replacements + 1
          /\ \A n \in 1..Len(history') : history'[n].iteration = n
          /\ Len(history') = Len(history) + 1 =>
                /\ iteration' = iteration + 1
                /\ Last(history').iteration = iteration'
                /\ Last(history').before = work_string
                /\ Last(history').after = work_string'
                /\ AppliedInStep(Min(OccurringRules(work_string)))
                /\ Last(history').rule_pattern =
                      rules[Min(OccurringRules(work_string))].pattern
      ]_vars

\* C3 witness: two iterations both applied rule 1 while rule 2's pattern occurred
\* in the string the first iteration left.
C3_Witness ==
    /\ pc = "loop"
    /\ Len(rules) = 2
    /\ Len(history) = 2
    /\ rules[1].applied_count = 2
    /\ rules[1].pattern # rules[2].pattern
    /\ history[2].before = history[1].after
    /\ Occurs(history[2].before, rules[2].pattern)

\* C4 as stated: a run in which a final rule is applied returns CompletedFinal
\* with the string right after that substitution.
C4_Original ==
    (pc = "idle" /\ history # << >> /\ Last(history).is_final) =>
        /\ raised = NoError
        /\ result.status = "completed_final"
        /\ result.output = Last(history).after

\* C4 amended: the step that applies a final rule ends the run with no further
\* substitution; it returns CompletedFinal with the string right after that
\* substitution, unless that string is longer than max_output_length, in which
\* case the output-limit error is raised and no result is returned.
C4_FinalShortCircuit ==
    [][ (pc = "loop" /\ Len(history') = Len(history) + 1 /\ Last(history').is_final) =>
          /\ pc' = "idle"
          /\ Last(history').after = work_string'
          /\ IF Len(work_string') > max_output_length
             THEN /\ raised'.kind = "ExecutionLimitError"
                  /\ raised'.limit = "output"
                  /\ result' = result
             ELSE /\ raised' = NoError
                  /\ result'.status = "completed_final"
                  /\ result'.output = work_string'
                  /\ result'.iterations = iteration'
                  /\ result'.history = history'
      ]_vars

\* C4 witness: a run returned CompletedFinal after a non-final substitution while
\* a rule's pattern still occurs in the output.
C4_Witness ==
    /\ pc = "idle"
    /\ raised = NoError
    /\ result.status = "completed_final"
    /\ result.history = history
    /\ Len(history) = 2
    /\ ~history[1].is_final
    /\ history[2].is_final
    /\ \E k \in 1..Len(result.rule_usage) :
          Occurs(result.output, result.rule_usage[k].pattern)

\* C5: whenever execute returns Completed, no rule's pattern occurs in the
\* returned output and no final rule was applied during the run.
C5_NormalForm ==
    result.status = "completed" =>
        /\ \A k \in 1..Len(result.rule_usage) :
              ~Occurs(result.output, result.rule_usage[k].pattern)
        /\ \A n \in 1..Len(result.history) : ~result.history[n].is_final

\* C5 witness: a Completed result of a run with two rules and a substitution.
C5_Witness ==
    /\ result.status = "completed"
    /\ Len(result.rule_usage) = 2
    /\ Len(result.history) >= 1
    /\ result.output # result.history[1].before

\* no rule's pattern occurs in the input of the running call
NoPatternOccurs == \A k \in 1..Len(rules) : ~Occurs(input_text, rules[k].pattern)

\* the step returns the no-match result: Completed after one iteration, the input
\* as output, an empty history
ReturnsInputUnchanged ==
    /\ pc' = "idle"
    /\ raised' = NoError
    /\ result'.status = "completed"
    /\ result'.iterations = 1
    /\ result'.output = input_text
    /\ result'.history = << >>
    /\ history' = << >>

\* C6 as stated: for a rule set (also the empty one) none of whose patterns occurs
\* in the input, execute returns Completed with iterations = 1, output equal to the
\* input and an empty history.
C6_Original ==
    [][ (pc = "loop" /\ NoPatternOccurs) => ReturnsInputUnchanged ]_vars

\* C6 amended: the same for an engine with max_iterations >= 1; with
\* max_iterations = 0 the call raises the iteration-limit error and returns nothing.
C6_NoMatch ==
    [][ (pc = "loop" /\ NoPatternOccurs) =>
          IF max_iterations >= 1
          THEN ReturnsInputUnchanged
          ELSE /\ pc' = "idle"
               /\ raised'.kind = "ExecutionLimitError"
               /\ raised'.limit = "iterations"
               /\ result' = result
      ]_vars

\* C6 witness: a non-empty input that matches none of the rules of a non-empty
\* rule set came back unchanged.
C6_Witness ==
    /\ pc = "idle"
    /\ raised = NoError
    /\ rules # << >>
    /\ input_text # << >>
    /\ NoPatternOccurs
    /\ result.status = "completed"
    /\ result.iterations = 1
    /\ result.output = input_text
    /\ result.rule_usage = rules
    /\ history = << >>
    /\ stats.total_executions = result.statistics.total_executions

\* the outcomes of the step that ends an execute call
ReturnedWith(status) ==
    /\ raised' = NoError
    /\ result'.status = status
    /\ result'.statistics.total_executions = stats'.total_executions
RaisedLimit(limit) ==
    /\ raised'.kind = "ExecutionLimitError"
    /\ raised'.limit = limit
    /\ result' = result

\* C7: an execute call never makes more than max_iterations passes of its loop:
\* every step of a running call either ends the call or starts the next pass, a
\* pass is started only while fewer than max_iterations were made, and with
\* max_iterations passes made the next step ends the call; the call ends in
\* exactly one of: result Completed, result CompletedFinal, iteration-limit
\* error, output-limit error.
C7_BoundedHalting ==
    /\ [](iteration <= max_iterations)
    /\ [][ pc = "loop" =>
             \/ pc' = "idle"
             \/ /\ pc' = "loop"
                /\ iteration < max_iterations
                /\ iteration' = iteration + 1
         ]_vars
    /\ [][ (pc = "loop" /\ pc' = "idle") =>
             Cardinality({ o \in {"completed", "completed_final", "iterations", "output"} :
                             \/ o \in {"completed", "completed_final"} /\ ReturnedWith(o)
                             \/ o \in {"iterations", "output"} /\ RaisedLimit(o) }) = 1
         ]_vars

\* C7 witness: a call has made max_iterations passes, each with a substitution.
C7_Witness ==
    /\ pc = "loop"
    /\ max_iterations > 0
    /\ iteration = max_iterations
    /\ Len(history) = max_iterations

\* C8: a call whose max_iterations passes each applied a non-final rule without
\* exceeding the output limit raises the iteration-limit error, adds exactly 1 to
\* total_cycles_detected (and nothing to the other counters) and returns no result.
C8_IterationLimit ==
    /\ [](pc = "loop" =>
             /\ Len(history) = iteration
             /\ \A n \in 1..Len(history) :
                   /\ ~history[n].is_final
                   /\ Len(history[n].after) <= max_output_length)
    /\ [][ (pc = "loop" /\ iteration = max_iterations) =>
             /\ pc' = "idle"
             /\ raised' = [kind |-> "ExecutionLimitError", limit |-> "iterations",
                           threshold |-> max_iterations]
             /\ stats' = [stats EXCEPT !.total_cycles_detected = @ + 1]
             /\ result' = result
         ]_vars

\* C8 witness: the iteration-limit error after max_iterations substitutions, the
\* second of which restores the letter the first one removed.
C8_Witness ==
    /\ pc = "idle"
    /\ raised.kind = "ExecutionLimitError"
    /\ raised.limit = "iterations"
    /\ max_iterations > 0
    /\ Len(history) = max_iterations
    /\ history[1].rule_pattern # history[2].rule_pattern
    /\ history[2].rule_replacement = history[1].rule_pattern
    /\ stats.total_cycles_detected = 1

\* C9 as stated: no result returned by execute has an output longer than
\* max_output_length.
C9_Original ==
    result.status # "none" => Len(result.output) <= max_output_length

\* C9 amended: a substitution that leaves the working string longer than
\* max_output_length is the last of its run and the run raises the output-limit
\* error, so no result with a substitution in its history has an output longer
\* than max_output_length; the input itself is never measured.
C9_OutputLimit ==
    /\ \A n \in 1..Len(history) :
          Len(history[n].after) > max_output_length =>
             /\ n = Len(history)
             /\ pc = "idle"
             /\ raised.kind = "ExecutionLimitError"
             /\ raised.limit = "output"
             /\ raised.observed = Len(history[n].after)
    /\ (result.status # "none" /\ result.history # << >>) =>
          Len(result.output) <= max_output_length

\* C9 witness: the output-limit error raised by the second substitution of a run.
C9_Witness ==
    /\ pc = "idle"
    /\ raised.limit = "output"
    /\ Len(history) = 2
    /\ Len(history[1].after) <= max_output_length
    /\ Len(history[2].after) > max_output_length
    /\ work_string = history[2].after

\* C10: a call that fails with either limit error returns no result and leaves in
\* the engine's history every entry of the failed run, in order, the entry of the
\* substitution that exceeded max_output_length included; no step but the start of
\* the next execute call removes or changes an entry.
C10_HistorySurvivesFailure ==
    [][ /\ pc = "loop" =>
             /\ Len(history') >= Len(history)
             /\ SubSeq(history', 1, Len(history)) = history
        /\ (pc = "loop" /\ pc' = "idle" /\ raised'.kind = "ExecutionLimitError") =>
             /\ result' = result
             /\ raised'.limit = "iterations" => history' = history
             /\ raised'.limit = "output" =>
                   /\ Len(history') = Len(history) + 1
                   /\ Last(history').before = work_string
                   /\ Last(history').after = work_string'
                   /\ Len(work_string') > max_output_length
        /\ (pc = "idle" /\ pc' = "idle") => history' = history
        /\ (pc = "idle" /\ pc' = "loop") => history' = << >>
      ]_vars

\* C10 witness: after an output-limit failure and a clear_rules call the history
\* still holds both entries of the failed run.
C10_Witness ==
    /\ pc = "idle"
    /\ raised.limit = "output"
    /\ rules = << >>
    /\ Len(history) = 2
    /\ history[2].before = history[1].after
    /\ Len(history[2].after) > max_output_length

\* the length constraints a candidate rule has to meet
WithinLimits(pattern, replacement) ==
    /\ Len(pattern) <= max_pattern_length
    /\ Len(replacement) <= max_rule_length

\* C11: add_rule is all-or-nothing: a candidate within the length limits is
\* appended as one rule (pattern, replacement, is_final, applied_count 0) at the
\* end of the rule list, the rules before it unchanged and in order; a candidate
\* that violates a length limit raises RuleValidationError and leaves the rule
\* list as it was.
C11_AddRuleAllOrNothing ==
    [][ \A c \in RuleChoices :
          AddRule(c[1], c[2], c[3]) =>
             IF WithinLimits(c[1], c[2])
             THEN /\ add_error' = NoError
                  /\ Len(rules') = Len(rules) + 1
                  /\ SubSeq(rules', 1, Len(rules)) = rules
                  /\ Last(rules') = [pattern |-> c[1], replacement |-> c[2],
                                     is_final |-> c[3], applied_count |-> 0]
             ELSE /\ add_error'.kind = "RuleValidationError"
                  /\ rules' = rules
      ]_vars

\* C11 witness: a candidate was rejected after another one was accepted, and the
\* rule list still holds the accepted rule alone.
C11_Witness ==
    /\ adds = 2
    /\ add_error.kind = "RuleValidationError"
    /\ Len(rules) = 1
    /\ WithinLimits(rules[1].pattern, rules[1].replacement)
    /\ rules[1].applied_count = 0

\* C12: after any sequence of add_rule, clear_rules, load_rules and execute calls,
\* every rule the engine holds has a pattern no longer than max_pattern_length and
\* a replacement no longer than the replacement limit.
C12_RuleLengthInvariant ==
    \A k \in 1..Len(rules) : WithinLimits(rules[k].pattern, rules[k].replacement)

\* C13: during an execute call no rule's applied_count decreases, none grows by
\* more than 1 in one iteration, none exceeds max_iterations, and the sum of all
\* rules' applied_count never exceeds the iteration number.
C13_AppliedCountBound ==
    /\ [](pc = "loop" =>
             /\ \A k \in 1..Len(rules) :
                   /\ rules[k].applied_count >= 0
                   /\ rules[k].applied_count <= max_iterations
             /\ SumApplied(rules) <= iteration)
    /\ [][ pc = "loop" =>
             /\ Len(rules') = Len(rules)
             /\ \A k \in 1..Len(rules) :
                   /\ rules'[k].applied_count >= rules[k].applied_count
                   /\ rules'[k].applied_count <= rules[k].applied_count + 1
             /\ SumApplied(rules') <= iteration'
         ]_vars

\* C13 witness: in the second call on an engine a rule has been applied in every
\* one of max_iterations iterations, after substitutions in the first call.
C13_Witness ==
    /\ pc = "loop"
    /\ max_iterations > 0
    /\ iteration = max_iterations
    /\ stats.total_executions = 2
    /\ stats.total_replacements > SumApplied(rules)
    /\ \E k \in 1..Len(rules) : rules[k].applied_count = max_iterations

\* a rule list, or a rule_usage list, without the counters
StaticRules(rs) ==
    [k \in 1..Len(rs) |-> <<rs[k].pattern, rs[k].replacement, rs[k].is_final>>]

\* the input of the call that returned r: the string before the first substitution,
\* or the output when nothing was substituted
InputOf(r) == IF r.history = << >> THEN r.output ELSE r.history[1].before

\* the last returned result is the result of a call with the rule list and the input
\* of the running call
SameCallReturnedBefore ==
    /\ result.status # "none"
    /\ StaticRules(result.rule_usage) = StaticRules(rules)
    /\ InputOf(result) = input_text

\* C14: on one engine, a call with the same ordered rule list and the same input as
\* an earlier call that returned a result returns a result too, with the same
\* output, status, iterations, history and rule_usage (the statistics, which carry
\* the lifetime counters, are not compared).
C14_Determinism ==
    [][ (pc = "loop" /\ pc' = "idle") =>
          /\ raised' = NoError => InputOf(result') = input_text
          /\ SameCallReturnedBefore =>
                /\ raised' = NoError
                /\ result'.output = result.output
                /\ result'.status = result.status
                /\ result'.iterations = result.iterations
                /\ result'.history = result.history
                /\ result'.rule_usage = result.rule_usage
      ]_vars

\* C14 witness: a second call with the rule list and the input of the call that
\* returned before it has made the same substitutions again.
C14_Witness ==
    /\ pc = "loop"
    /\ SameCallReturnedBefore
    /\ stats.total_executions = 2
    /\ result.statistics.total_executions = 1
    /\ Len(history) >= 1
    /\ history = result.history
    /\ work_string = result.output

\* a rule list with every counter at 0
ZeroCounts(rs) == [k \in 1..Len(rs) |-> [rs[k] EXCEPT !.applied_count = 0]]

\* the run of execute from the frame f after iter iterations, on an engine with
\* this engine's limits: how it ends, and with what
RECURSIVE RunFrom(_, _)
RunFrom(f, iter) ==
    IF ~(iter < max_iterations)
    THEN [outcome |-> "iterations", output |-> f.work_string, iterations |-> iter,
          history |-> f.history, rules |-> f.rules]
    ELSE LET g == ForRules([f EXCEPT !.applied_this_iteration = FALSE,
                                     !.exit = "exhausted"], 1, iter + 1)
             ends(outcome) ==
                 [outcome |-> outcome, output |-> g.work_string,
                  iterations |-> iter + 1, history |-> g.history, rules |-> g.rules]
         IN  IF g.exit = "raise_output" THEN ends("output")
             ELSE IF g.exit = "return_final" THEN ends("completed_final")
             ELSE IF ~g.applied_this_iteration THEN ends("completed")
             ELSE RunFrom(g, iter + 1)

\* the run of execute(text) on an engine that holds the rules rs and has made no
\* call before
FreshRun(rs, text) ==
    RunFrom([work_string |-> text, rules |-> ZeroCounts(rs), history |-> << >>,
             stats |-> reset_stats, applied_this_iteration |-> FALSE,
             exit |-> "exhausted"], 0)

\* C15: every execute call starts by emptying the history and setting every rule's
\* applied_count to 0, and it ends as the same call ends on an engine that has made
\* no call before: the same outcome (result or limit error), and the same output,
\* status, iterations, history and rule_usage, whatever the earlier calls on the
\* engine did, a call that failed with a limit error included.
C15_Reentrancy ==
    /\ [][ (pc = "idle" /\ pc' = "loop") =>
             /\ history' = << >>
             /\ rules' = ZeroCounts(rules)
             /\ work_string' = input_text'
             /\ iteration' = 0
         ]_vars
    /\ [][ (pc = "loop" /\ pc' = "idle") =>
             LET fresh == FreshRun(rules, input_text)
             IN  /\ history' = fresh.history
                 /\ rules' = fresh.rules
                 /\ IF raised' = NoError
                    THEN /\ result'.status = fresh.outcome
                         /\ result'.output = fresh.output
                         /\ result'.iterations = fresh.iterations
                         /\ result'.history = fresh.history
                         /\ result'.rule_usage = fresh.rules
                    ELSE /\ raised'.limit = fresh.outcome
                         /\ result' = result
         ]_vars

\* C15 witness: a call returned a result with a substitution after an earlier call
\* on the same engine had made substitutions and failed at the iteration limit.
C15_Witness ==
    /\ pc = "idle"
    /\ raised = NoError
    /\ stats.total_executions = 2
    /\ stats.total_cycles_detected = 1
    /\ result.statistics.total_executions = 2
    /\ Len(result.history) >= 1
    /\ stats.total_replacements > Len(result.history)

\* C16: the lifetime counters count over all execute calls of the engine: the
\* start of a call adds 1 to total_executions and changes no other counter; every
\* substitution adds 1 to total_replacements; a call that ends with the
\* iteration-limit error adds 1 to total_cycles_detected, and no other step does
\* (an output-limit failure adds none); no call sets a counter back, and add_rule,
\* clear_rules and load_rules leave all three as they are.
C16_LifetimeCounters ==
    /\ [](/\ stats.total_cycles_detected <= stats.total_executions
          /\ stats.total_replacements >= Len(history))
    /\ [][ /\ (pc = "idle" /\ pc' = "loop") =>
                stats' = [stats EXCEPT !.total_executions = @ + 1]
           /\ pc = "loop" =>
                /\ stats'.total_executions = stats.total_executions
                /\ stats'.total_replacements =
                      stats.total_replacements + (Len(history') - Len(history))
                /\ stats'.total_cycles_detected =
                      stats.total_cycles_detected
                      + (IF pc' = "idle" /\ raised'.limit = "iterations" THEN 1 ELSE 0)
           /\ (pc = "idle" /\ pc' = "idle") => stats' = stats
         ]_vars

\* C16 witness: after a call that failed at the iteration limit and a call that
\* failed at the output limit the engine counts two executions, the substitutions
\* of both calls and one cycle.
C16_Witness ==
    /\ pc = "idle"
    /\ raised.limit = "output"
    /\ stats.total_executions = 2
    /\ stats.total_cycles_detected = 1
    /\ stats.total_replacements = max_iterations + Len(history)
    /\ max_iterations > 0
    /\ Len(history) >= 1

\* C17: the warnings of a call are detect_potential_cycles of the rule list the
\* call starts with, and a result carries exactly them; a call starts its loop
\* with or without warnings, and it ends as the rules and the input alone decide:
\* the same output, status, iterations and history, and no error but the limit
\* error the rules and the input lead to.
C17_WarningsAdvisory ==
    /\ [](pc = "loop" => warnings = detect_potential_cycles(StaticRules(rules)))
    /\ [][ (pc = "idle" /\ stats'.total_executions = stats.total_executions + 1) =>
             /\ warnings' = detect_potential_cycles(StaticRules(rules))
             /\ pc' = "loop"
             /\ raised' = NoError
         ]_vars
    /\ [][ (pc = "loop" /\ pc' = "idle") =>
             LET ran == FreshRun(rules, input_text)
             IN  IF ran.outcome \in {"completed", "completed_final"}
                 THEN /\ raised' = NoError
                      /\ result'.warnings = warnings
                      /\ result'.status = ran.outcome
                      /\ result'.output = ran.output
                      /\ result'.iterations = ran.iterations
                      /\ result'.history = ran.history
                 ELSE /\ raised'.kind = "ExecutionLimitError"
                      /\ raised'.limit = ran.outcome
         ]_vars

\* C17 witness: a result with a substitution in its history carries warnings.
C17_Witness ==
    /\ pc = "idle"
    /\ raised = NoError
    /\ result.status \in {"completed", "completed_final"}
    /\ result.warnings # << >>
    /\ result.warnings = detect_potential_cycles(StaticRules(result.rule_usage))
    /\ result.history # << >>
    /\ history = result.history

\* the positions of the growth and of the mutual-substitution warnings in ws
GrowthAt(ws) == { n \in 1..Len(ws) : ws[n][1] = "growth" }
MutualAt(ws) == { n \in 1..Len(ws) : ws[n][1] = "mutual" }

\* rule k makes the string longer and has a non-empty pattern
Grows(rs, k) ==
    /\ Len(rs[k].replacement) > Len(rs[k].pattern)
    /\ rs[k].pattern # << >>

\* C18: the warnings of a rule list hold exactly one growth warning for every
\* rule whose replacement is longer than its pattern and whose pattern is not
\* empty, final or not, naming the rule's 1-based index, its pattern and its
\* replacement, and none for any other rule; the growth warnings are in rule order
\* and before every mutual-substitution warning.
C18_GrowthHeuristic ==
    pc = "loop" =>
        /\ \A k \in 1..Len(rules) :
              Cardinality({ n \in GrowthAt(warnings) : warnings[n][2] = k })
                 = IF Grows(rules, k) THEN 1 ELSE 0
        /\ \A n \in GrowthAt(warnings) :
              /\ warnings[n][2] \in 1..Len(rules)
              /\ warnings[n][3] = rules[warnings[n][2]].pattern
              /\ warnings[n][4] = rules[warnings[n][2]].replacement
        /\ \A n, o \in GrowthAt(warnings) : n < o => warnings[n][2] < warnings[o][2]
        /\ \A n \in GrowthAt(warnings) : \A o \in MutualAt(warnings) : n < o
        /\ GrowthAt(warnings) \cup MutualAt(warnings) = 1..Len(warnings)

\* C18 witness: a final rule is named in a growth warning, and the rule before it
\* is not.
C18_Witness ==
    /\ pc = "loop"
    /\ Len(rules) = 2
    /\ rules[2].is_final
    /\ Grows(rules, 2)
    /\ ~Grows(rules, 1)
    /\ warnings = << <<"growth", 2, rules[2].pattern, rules[2].replacement>> >>

\* rules i and j of rs substitute each other: each one's pattern occurs in the
\* other one's replacement
Mutual(rs, i, j) ==
    /\ i # j
    /\ Occurs(rs[j].replacement, rs[i].pattern)
    /\ Occurs(rs[i].replacement, rs[j].pattern)

\* C19: the warnings of a rule list hold exactly one mutual-substitution warning
\* for every ordered pair (i, j), i # j, of rules each of whose patterns occurs in
\* the other's replacement, and none for any other pair: such a pair is reported
\* as (i, j) and as (j, i), and no rule is reported against itself; the rules
\* (a -> ba), (b -> a) yield such a warning.
C19_MutualHeuristic ==
    /\ pc = "loop" =>
          /\ \A i, j \in 1..Len(rules) :
                Cardinality({ n \in MutualAt(warnings) :
                                warnings[n][2] = i /\ warnings[n][3] = j })
                   = IF Mutual(rules, i, j) THEN 1 ELSE 0
          /\ \A n \in MutualAt(warnings) :
                /\ warnings[n][2] \in 1..Len(rules)
                /\ warnings[n][3] \in 1..Len(rules)
                /\ warnings[n][2] # warnings[n][3]
                /\ \E o \in MutualAt(warnings) :
                      /\ warnings[o][2] = warnings[n][3]
                      /\ warnings[o][3] = warnings[n][2]
    /\ MutualAt(detect_potential_cycles(<< << <<"a">>, <<"b", "a">>, FALSE >>,
                                           << <<"b">>, <<"a">>, FALSE >> >>)) # {}

\* C19 witness: two rules with different patterns are reported as the pair (1, 2)
\* and as the pair (2, 1), and a third warning there is not.
C19_Witness ==
    /\ pc = "loop"
    /\ Len(rules) = 2
    /\ rules[1].pattern # rules[2].pattern
    /\ rules[1].pattern # << >>
    /\ rules[2].pattern # << >>
    /\ warnings = << <<"mutual", 1, 2>>, <<"mutual", 2, 1>> >>

\* the error list the last add_rule call got from validate_rule
ErrorsOf(e) == IF e = NoError THEN << >> ELSE e.errors

\* C20: for a string pattern, a string replacement and a boolean is_final,
\* validate_rule returns the empty list exactly when the pattern is no longer than
\* max_pattern_length and the replacement no longer than the replacement limit
\* (a length equal to the limit passes); otherwise it returns one message for each
\* limit that is exceeded, the pattern's first, each with the length and the limit.
C20_ValidationBoundary ==
    [][ \A c \in RuleChoices :
          AddRule(c[1], c[2], c[3]) =>
             LET errors == ErrorsOf(add_error')
                 pattern_long == Len(c[1]) > max_pattern_length
                 replacement_long == Len(c[2]) > max_rule_length
             IN  /\ errors = << >> <=> ~pattern_long /\ ~replacement_long
                 /\ Len(errors) = (IF pattern_long THEN 1 ELSE 0)
                                   + (IF replacement_long THEN 1 ELSE 0)
                 /\ pattern_long =>
                       errors[1] = <<"pattern too long", Len(c[1]), max_pattern_length>>
                 /\ replacement_long =>
                       errors[Len(errors)] =
                          <<"replacement too long", Len(c[2]), max_rule_length>>
      ]_vars

\* C20 witness: a pattern of exactly max_pattern_length was accepted, and then a
\* pattern one character longer was refused with one message, which holds its
\* length and the limit.
C20_Witness ==
    /\ adds = 2
    /\ Len(rules) = 1
    /\ Len(rules[1].pattern) = max_pattern_length
    /\ ErrorsOf(add_error) =
          << <<"pattern too long", max_pattern_length + 1, max_pattern_length>> >>

\* the file save_rules writes for the rule list rs
FileOf(rs) == [readable |-> TRUE, records |-> [k \in 1..Len(rs) |-> to_dict(rs[k])]]

\* C21: a record written for a rule has the keys pattern, replacement and is_final
\* with the rule's values, and no applied_count; a decoded rule has the record's
\* pattern and replacement, the record's is_final, or false when the record has no
\* such key, and applied_count 0; so loading the file saved from the engine's
\* rules gives the same rules back, with every applied_count 0.
C21_SerializationRoundTrip ==
    /\ [](\A k \in 1..Len(saved.records) :
             DOMAIN saved.records[k] = {"pattern", "replacement", "is_final"})
    /\ [][ SaveRules =>
             /\ saved'.readable
             /\ Len(saved'.records) = Len(rules)
             /\ \A k \in 1..Len(rules) :
                   /\ saved'.records[k].pattern = rules[k].pattern
                   /\ saved'.records[k].replacement = rules[k].replacement
                   /\ saved'.records[k].is_final = rules[k].is_final
         ]_vars
    /\ [][ \A file \in FileChoices \cup {saved} :
             (file.readable /\ LoadRules(file)) =>
                \A k \in 1..Len(rules') :
                   /\ rules'[k].pattern = file.records[k].pattern
                   /\ rules'[k].replacement = file.records[k].replacement
                   /\ rules'[k].is_final =
                         IF "is_final" \in DOMAIN file.records[k]
                         THEN file.records[k].is_final ELSE FALSE
                   /\ rules'[k].applied_count = 0
         ]_vars
    /\ [][ (saved = FileOf(rules) /\ LoadRules(saved)) =>
             /\ load_error' = NoError
             /\ rules' = ZeroCounts(rules)
         ]_vars

\* C21 witness: after a run that applied a final rule the rules were saved and
\* loaded again: the engine holds the same rules, the final one included, with the
\* counters at 0.
C21_Witness ==
    /\ pc = "idle"
    /\ stats.total_executions = 1
    /\ load_error = NoError
    /\ saved = FileOf(rules)
    /\ result.status = "completed_final"
    /\ StaticRules(result.rule_usage) = StaticRules(rules)
    /\ \E k \in 1..Len(rules) :
          /\ rules[k].is_final
          /\ result.rule_usage[k].applied_count > 0
          /\ rules[k].applied_count = 0

\* C22: no step of an execute call, from its start to its return or failure,
\* changes the number or the order of the rules or a rule's pattern, replacement
\* or is_final: applied_count is the only field of a rule it writes.
C22_ExecuteKeepsRules ==
    [][ (pc = "loop" \/ pc' = "loop") =>
          /\ Len(rules') = Len(rules)
          /\ StaticRules(rules') = StaticRules(rules)
          /\ \A k \in 1..Len(rules) :
                rules'[k] = [rules[k] EXCEPT !.applied_count = rules'[k].applied_count]
      ]_vars

\* C22 witness: a call in which two different rules were applied has failed, and
\* both rules are in the list with their counts.
C22_Witness ==
    /\ pc = "idle"
    /\ raised.kind = "ExecutionLimitError"
    /\ Len(rules) = 2
    /\ rules[1].pattern # rules[2].pattern
    /\ rules[1].applied_count > 0
    /\ rules[2].applied_count > 0
    /\ Len(history) = 2
    /\ history[1].rule_pattern = rules[1].pattern
    /\ history[2].rule_pattern = rules[2].pattern

\* a clear_rules call on a rule list that is not empty: the one step between two
\* calls that empties the list and is not a load_rules call
ClearsRules ==
    /\ pc = "idle"
    /\ pc' = "idle"
    /\ rules # << >>
    /\ rules' = << >>
    /\ adds' = adds

\* clear_rules changes nothing but the rule list
ClearChangesNothingElse ==
    ClearsRules =>
        /\ stats' = stats
        /\ history' = history
        /\ result' = result
        /\ raised' = raised
        /\ <<max_iterations', max_output_length'>> = <<max_iterations, max_output_length>>

\* C23 as stated: clear_rules empties the rule list and changes nothing else, and an
\* execute call on an engine with no rules returns Completed with the input as
\* output.
C23_Original ==
    [][ /\ ClearChangesNothingElse
        /\ (pc = "loop" /\ rules = << >>) =>
              /\ pc' = "idle"
              /\ raised' = NoError
              /\ result'.status = "completed"
              /\ result'.output = input_text
      ]_vars

\* C23 amended: clear_rules empties the rule list and changes nothing else, and an
\* execute call on an engine with no rules and max_iterations >= 1 returns
\* Completed with the input as output; with max_iterations = 0 it raises the
\* iteration-limit error.
C23_ClearRules ==
    [][ /\ ClearChangesNothingElse
        /\ (pc = "loop" /\ rules = << >>) =>
              /\ pc' = "idle"
              /\ IF max_iterations >= 1
                 THEN /\ raised' = NoError
                      /\ result'.status = "completed"
                      /\ result'.output = input_text
                 ELSE /\ raised'.kind = "ExecutionLimitError"
                      /\ raised'.limit = "iterations"
                      /\ result' = result
      ]_vars

\* C23 witness: after a run with substitutions the rules were cleared, and a call
\* on a non-empty input returned it, with the lifetime counters of both calls.
C23_Witness ==
    /\ pc = "idle"
    /\ rules = << >>
    /\ raised = NoError
    /\ stats.total_executions = 2
    /\ stats.total_replacements >= 1
    /\ result.statistics.total_executions = 2
    /\ result.statistics.rules_count = 0
    /\ result.status = "completed"
    /\ input_text # << >>
    /\ result.output = input_text

\* the result held is the result of the last execute call, whose input is
\* input_text and whose log is history
ResultOfLastCall ==
    /\ pc = "idle"
    /\ raised = NoError
    /\ result.status # "none"
    /\ result.statistics.total_executions = stats.total_executions

\* entries is a chain from the string `first`: the k-th entry has iteration k, the
\* first entry's before is `first`, every other entry's before is the after of the
\* entry before it
IsChainFrom(entries, first) ==
    \A n \in 1..Len(entries) :
        /\ entries[n].iteration = n
        /\ entries[n].before = IF n = 1 THEN first ELSE entries[n - 1].after

\* C24: the history of a run is a chain that replays it: one entry for every
\* substitution, the k-th with iteration = k, the first entry's before equal to the
\* input, every other entry's before equal to the after of the entry before it;
\* the last entry's after is the working string, and in a returned result the
\* output (which is the input when the history is empty).
C24_HistoryChain ==
    /\ IsChainFrom(history, input_text)
    /\ pc = "loop" =>
          /\ Len(history) = SumApplied(rules)
          /\ work_string = IF history = << >> THEN input_text ELSE Last(history).after
    /\ result.status # "none" =>
          /\ IsChainFrom(result.history, InputOf(result))
          /\ Len(result.history) = SumApplied(result.rule_usage)
          /\ result.history # << >> => Last(result.history).after = result.output
    /\ ResultOfLastCall =>
          /\ result.history = history
          /\ result.output = IF history = << >> THEN input_text ELSE Last(history).after

\* C24 witness: a result whose history has two entries, each of which changed the
\* string.
C24_Witness ==
    /\ ResultOfLastCall
    /\ Len(history) = 2
    /\ history[1].before = input_text
    /\ history[1].after # history[1].before
    /\ history[2].after # history[2].before
    /\ result.output = history[2].after

\* the number of entries up to and including the n-th that carry its rule's pattern
\* (of several rules with one pattern only the first is ever applied)
EntriesOfSameRule(entries, n) ==
    Cardinality({ k \in 1..n : entries[k].rule_pattern = entries[n].rule_pattern })

\* every entry's rule_applied_count is the number of entries so far of its rule
CountsFollowEntries(entries) ==
    \A n \in 1..Len(entries) :
        entries[n].rule_applied_count = EntriesOfSameRule(entries, n)

\* the index of the rule an entry was produced by: the first rule with its pattern
RuleOfEntry(rs, entry) ==
    Min({ k \in 1..Len(rs) : rs[k].pattern = entry.rule_pattern })

\* the entries of the rule at index k
EntriesOfRule(rs, entries, k) ==
    { n \in 1..Len(entries) :
        /\ \E j \in 1..Len(rs) : rs[j].pattern = entries[n].rule_pattern
        /\ RuleOfEntry(rs, entries[n]) = k }

\* C25: the statistics of every returned result agree with its history: rules_count
\* is the number of rules, active_rules_count the number of rules with
\* applied_count > 0, the applied_count of rule_usage sum to the number of history
\* entries (which is total_steps when that key is present), and every entry's
\* rule_applied_count is the number of entries up to and including it that the same
\* rule produced.
C25_StatisticsMatchHistory ==
    /\ [](/\ CountsFollowEntries(history)
          /\ result.status # "none" =>
                /\ result.statistics.rules_count = Len(result.rule_usage)
                /\ result.statistics.active_rules_count =
                       Cardinality({ k \in 1..Len(result.rule_usage) :
                                       result.rule_usage[k].applied_count > 0 })
                /\ SumApplied(result.rule_usage) = Len(result.history)
                /\ "total_steps" \in DOMAIN result.statistics =>
                       result.statistics.total_steps = Len(result.history)
                /\ "total_steps" \in DOMAIN result.statistics <=> result.history # << >>
                /\ CountsFollowEntries(result.history)
                /\ \A k \in 1..Len(result.rule_usage) :
                       result.rule_usage[k].applied_count =
                          Cardinality(EntriesOfRule(result.rule_usage, result.history, k)))
    /\ [][ (pc = "loop" /\ pc' = "idle" /\ raised' = NoError) =>
              /\ result'.statistics.rules_count = Len(rules')
              /\ result'.statistics.active_rules_count =
                     Cardinality({ k \in 1..Len(rules') : rules'[k].applied_count > 0 })
              /\ Len(result'.rule_usage) = Len(rules')
              /\ \A k \in 1..Len(rules') :
                     result'.rule_usage[k].applied_count = rules'[k].applied_count
              /\ result'.history = history' ]_vars

\* C25 witness: a result of two rules that were applied once each, with two history
\* entries.
C25_Witness ==
    /\ ResultOfLastCall
    /\ result.statistics.rules_count = 2
    /\ result.statistics.active_rules_count = 2
    /\ result.statistics.total_steps = 2
    /\ result.history[1].rule_pattern # result.history[2].rule_pattern
    /\ result.history[2].rule_applied_count = 1

\* C26: a result has status CompletedFinal exactly when its last history entry is
\* final, and then no earlier entry is final; a result with status Completed has no
\* final entry; so statistics.final_rule_applied, when present, is true exactly
\* when the status is CompletedFinal.
C26_StatusMatchesHistory ==
    result.status # "none" =>
        /\ result.status \in {"completed", "completed_final"}
        /\ result.status = "completed_final" <=>
               (result.history # << >> /\ Last(result.history).is_final)
        /\ result.status = "completed_final" =>
               \A n \in 1..(Len(result.history) - 1) : ~result.history[n].is_final
        /\ result.status = "completed" =>
               \A n \in 1..Len(result.history) : ~result.history[n].is_final
        /\ "final_rule_applied" \in DOMAIN result.statistics =>
               (result.statistics.final_rule_applied <=>
                   result.status = "completed_final")

\* C26 witness: a CompletedFinal result whose final entry follows a non-final one.
C26_Witness ==
    /\ result.status = "completed_final"
    /\ Len(result.history) = 2
    /\ ~result.history[1].is_final
    /\ result.history[2].is_final
    /\ result.statistics.final_rule_applied

\* C27: in every returned result, iterations is the number of history entries when
\* the status is CompletedFinal and the number of history entries plus 1 when the
\* status is Completed.
C27_IterationsVersusEntries ==
    result.status # "none" =>
        result.iterations =
            IF result.status = "completed_final" THEN Len(result.history)
            ELSE Len(result.history) + 1

\* C27 witness: a Completed result with one substitution and two iterations: the
\* second scan found no match.
C27_Witness ==
    /\ result.status = "completed"
    /\ Len(result.history) = 1
    /\ result.iterations = 2

\* the step applies a final rule in iteration number max_iterations
FinalInLastIteration ==
    /\ pc = "loop"
    /\ iteration' = max_iterations
    /\ Len(history') = Len(history) + 1
    /\ Last(history').is_final

\* the parts of C28 about Completed, the normal form reached by the last allowed
\* substitution, and max_iterations = 0
LimitBoundary ==
    /\ (pc = "loop" /\ ReturnedWith("completed")) =>
          /\ Len(history') < max_iterations
          /\ \A n \in 1..Len(history') : ~history'[n].is_final
          /\ OccurringRules(work_string') = {}
    /\ ( /\ pc = "loop"
         /\ Len(history) = max_iterations
         /\ OccurringRules(work_string) = {} ) =>
          /\ pc' = "idle"
          /\ RaisedLimit("iterations")
          /\ stats'.total_cycles_detected = stats.total_cycles_detected + 1
    /\ (pc = "loop" /\ max_iterations = 0) =>
          /\ pc' = "idle"
          /\ RaisedLimit("iterations")

\* C28 as stated: a run that reaches a string no rule matches after exactly k
\* non-final substitutions returns Completed only if k < max_iterations; with
\* k = max_iterations execute raises the iteration-limit error and counts a cycle;
\* a final rule applied in iteration number max_iterations returns CompletedFinal;
\* with max_iterations = 0 every call raises the iteration-limit error, also with
\* no rules.
C28_Original ==
    [][ /\ LimitBoundary
        /\ FinalInLastIteration => (pc' = "idle" /\ ReturnedWith("completed_final"))
      ]_vars

\* C28 amended: the same, but the final rule applied in iteration number
\* max_iterations returns CompletedFinal only when its result is no longer than
\* max_output_length; a longer result raises the output-limit error.
C28_LimitBoundary ==
    [][ /\ LimitBoundary
        /\ FinalInLastIteration =>
              /\ pc' = "idle"
              /\ IF Len(work_string') > max_output_length
                 THEN RaisedLimit("output")
                 ELSE ReturnedWith("completed_final")
      ]_vars

\* C28 witness: the iteration-limit error of a run whose max_iterations
\* substitutions, none final, left a string that no rule matches.
C28_Witness ==
    /\ pc = "idle"
    /\ raised.kind = "ExecutionLimitError"
    /\ raised.limit = "iterations"
    /\ max_iterations > 0
    /\ Len(history) = max_iterations
    /\ rules # << >>
    /\ OccurringRules(work_string) = {}
    /\ stats.total_cycles_detected = 1

\* the parts of C29 about the order of the two checks: the step that applies a
\* final rule with a result longer than max_output_length raises the output-limit
\* error, and only a step that made a substitution raises it
OutputCheckAfterSubstitution ==
    /\ ( /\ pc = "loop"
         /\ Len(history') = Len(history) + 1
         /\ Last(history').is_final
         /\ Len(Last(history').after) > max_output_length ) =>
          /\ pc' = "idle"
          /\ RaisedLimit("output")
    /\ (pc = "loop" /\ raised'.limit = "output") =>
          /\ Len(history') = Len(history) + 1
          /\ Last(history').after = work_string'
          /\ Len(work_string') > max_output_length

\* the running call was given an input longer than max_output_length that no rule
\* matches
LongInputNoMatch ==
    /\ pc = "loop"
    /\ Len(input_text) > max_output_length
    /\ NoPatternOccurs

\* C29 as stated: the output-length check precedes the final-rule check and is
\* made only after a substitution: applying a final rule whose result is longer
\* than max_output_length raises the output-limit error and returns no
\* CompletedFinal, and an input longer than max_output_length that matches no rule
\* is returned unchanged with status Completed.
C29_Original ==
    [][ /\ OutputCheckAfterSubstitution
        /\ LongInputNoMatch => ReturnsInputUnchanged
      ]_vars

\* C29 amended: the same, the unchanged return of the long input for an engine
\* with max_iterations >= 1; with max_iterations = 0 that call raises the
\* iteration-limit error (never the output-limit error).
C29_OutputCheckOrder ==
    [][ /\ OutputCheckAfterSubstitution
        /\ LongInputNoMatch =>
              IF max_iterations >= 1
              THEN ReturnsInputUnchanged
              ELSE /\ pc' = "idle"
                   /\ RaisedLimit("iterations")
      ]_vars

\* C29 witness: both cases on one engine: an input longer than max_output_length
\* came back unchanged, and the call after it applied a final rule as its first
\* substitution and raised the output-limit error.
C29_Witness ==
    /\ pc = "idle"
    /\ result.status = "completed"
    /\ result.history = << >>
    /\ Len(result.output) > max_output_length
    /\ stats.total_executions = 2
    /\ raised.kind = "ExecutionLimitError"
    /\ raised.limit = "output"
    /\ Len(history) = 1
    /\ history[1].is_final
    /\ Len(history[1].after) > max_output_length

\* the indices of the non-final rules with the empty pattern, and of those among
\* them with the empty replacement
NonFinalEmptyPattern ==
    { e \in 1..Len(rules) : rules[e].pattern = << >> /\ ~rules[e].is_final }
NonFinalEmptyRule ==
    { e \in NonFinalEmptyPattern : rules[e].replacement = << >> }

\* the parts of C30 about the match of the empty pattern and about the runs of a
\* rule list with a non-final empty-pattern rule
EmptyPatternApplied ==
    /\ \A w \in InputChoices : MatchAt(w, << >>, 0) /\ Find(w, << >>) = 0
    /\ \A e \in 1..Len(rules) :
          ( /\ pc = "loop"
            /\ iteration' = iteration + 1
            /\ rules[e].pattern = << >>
            /\ \A j \in 1..(e - 1) : ~Occurs(work_string, rules[j].pattern) ) =>
             /\ AppliedInStep(e)
             /\ work_string' = rules[e].replacement \o work_string
             /\ Last(history').position = 0
             /\ Last(history').rule_pattern = << >>
    /\ \A e \in NonFinalEmptyPattern :
          /\ \A k \in (e + 1)..Len(rules) :
                /\ rules[k].applied_count = 0
                /\ rules'[k].applied_count = 0
          /\ (pc = "loop" /\ pc' = "idle") =>
                \/ ReturnedWith("completed_final")
                \/ RaisedLimit("iterations")
                \/ RaisedLimit("output")

\* the step applies a final rule of lower index than e
LowerFinalApplied(e) ==
    \E j \in 1..(e - 1) : AppliedInStep(j) /\ rules[j].is_final

\* C30 as stated: a rule with pattern "" matches at position 0 of every working
\* string, the empty one included, so the scan that reaches it applies it by
\* prepending its replacement; with a non-final empty-pattern rule in the list no
\* rule of higher index is ever applied and no call returns Completed: a call
\* ends through a final rule or a limit error, and when the replacement is empty
\* too it ends with the iteration-limit error unless a lower-index final rule
\* matches.
C30_Original ==
    [][ /\ EmptyPatternApplied
        /\ \A e \in NonFinalEmptyRule :
              (pc = "loop" /\ pc' = "idle") =>
                 \/ RaisedLimit("iterations")
                 \/ LowerFinalApplied(e)
      ]_vars

\* C30 amended: the same, but with the empty replacement the call can also end
\* with the output-limit error: when the input is already longer than
\* max_output_length (the first substitution, which changes nothing, is followed
\* by the length check), or when a lower-index rule makes the string longer than
\* max_output_length.
C30_EmptyPattern ==
    [][ /\ EmptyPatternApplied
        /\ \A e \in NonFinalEmptyRule :
              (pc = "loop" /\ pc' = "idle") =>
                 \/ RaisedLimit("iterations")
                 \/ LowerFinalApplied(e)
                 \/ /\ RaisedLimit("output")
                    /\ \/ Len(input_text) > max_output_length
                       \/ \E j \in 1..(e - 1) :
                             /\ AppliedInStep(j)
                             /\ Len(work_string') > Len(work_string)
      ]_vars

\* C30 witness: on the empty input the rule with empty pattern and empty
\* replacement was applied at position 0 in each of the max_iterations passes, the
\* rule after it never, and the call raised the iteration-limit error.
C30_Witness ==
    /\ pc = "idle"
    /\ input_text = << >>
    /\ Len(rules) = 2
    /\ 1 \in NonFinalEmptyRule
    /\ rules[1].applied_count = max_iterations
    /\ rules[2].applied_count = 0
    /\ Occurs(input_text, rules[2].pattern)
    /\ Len(history) = 2
    /\ \A n \in 1..2 : history[n].position = 0 /\ history[n].after = << >>
    /\ raised.kind = "ExecutionLimitError"
    /\ raised.limit = "iterations"

\* the rule at index k of rs is shadowed: its pattern contains the pattern of a
\* rule of lower index (which may be the same pattern)
Shadowed(rs, k) ==
    \E j \in 1..(k - 1) : Occurs(rs[k].pattern, rs[j].pattern)

\* C31: a rule whose pattern contains the pattern of a lower-index rule, a
\* duplicate pattern included, is never applied: its applied_count is 0 in every
\* state of every run and in every rule_usage.
C31_ShadowedNeverFire ==
    /\ \A k \in 1..Len(rules) : Shadowed(rules, k) => rules[k].applied_count = 0
    /\ result.status # "none" =>
          \A k \in 1..Len(result.rule_usage) :
             Shadowed(result.rule_usage, k) => result.rule_usage[k].applied_count = 0

\* C31 witness: a result of a run in whose input the pattern of the second rule
\* occurred, a pattern that is longer than the pattern of the first rule and
\* contains it; the first rule was applied and the second was not.
C31_Witness ==
    /\ ResultOfLastCall
    /\ Len(result.rule_usage) = 2
    /\ Shadowed(result.rule_usage, 2)
    /\ Len(result.rule_usage[2].pattern) > Len(result.rule_usage[1].pattern)
    /\ result.rule_usage[1].pattern # << >>
    /\ Occurs(input_text, result.rule_usage[2].pattern)
    /\ result.rule_usage[1].applied_count > 0
    /\ result.rule_usage[2].applied_count = 0

\* the distinct patterns among entries
PatternsIn(entries) == { entries[n].rule_pattern : n \in 1..Len(entries) }

\* C32: in every returned result with a non-empty history
\* statistics.unique_rules_applied, the number of distinct patterns in the history,
\* equals statistics.active_rules_count, the number of rules with
\* applied_count > 0, also when the rule list has duplicate patterns.
C32_UniqueEqualsActive ==
    (result.status # "none" /\ result.history # << >>) =>
        /\ result.statistics.unique_rules_applied = result.statistics.active_rules_count
        /\ result.statistics.unique_rules_applied =
              Cardinality(PatternsIn(result.history))
        /\ result.statistics.active_rules_count =
              Cardinality({ k \in 1..Len(result.rule_usage) :
                              result.rule_usage[k].applied_count > 0 })

\* C32 witness: a result of two rules with one pattern, the first of which was
\* applied.
C32_Witness ==
    /\ result.status # "none"
    /\ result.history # << >>
    /\ Len(result.rule_usage) = 2
    /\ result.rule_usage[1].pattern = result.rule_usage[2].pattern
    /\ result.rule_usage[1].replacement # result.rule_usage[2].replacement
    /\ result.statistics.unique_rules_applied = 1
    /\ result.statistics.rules_count = 2

\* the keys get_stats adds to the statistics of a result
HistoryKeys == {"total_steps", "final_rule_applied", "unique_rules_applied"}

\* C39: get_stats only reads the history: the entries of the result are the
\* entries of the engine's log; for an empty history it returns the empty mapping,
\* so the statistics of a run without substitution have none of the keys
\* total_steps, final_rule_applied, unique_rules_applied; otherwise total_steps is
\* the number of entries, final_rule_applied is true iff some entry is final, and
\* unique_rules_applied is the number of distinct patterns among the entries.
C39_GetStats ==
    /\ ResultOfLastCall => result.history = history
    /\ result.status # "none" =>
          IF result.history = << >>
          THEN /\ HistoryKeys \cap DOMAIN result.statistics = {}
               /\ DOMAIN result.statistics =
                     DOMAIN stats \cup {"rules_count", "active_rules_count"}
          ELSE /\ HistoryKeys \subseteq DOMAIN result.statistics
               /\ result.statistics.total_steps = Len(result.history)
               /\ result.statistics.final_rule_applied <=>
                     \E n \in 1..Len(result.history) : result.history[n].is_final
               /\ result.statistics.unique_rules_applied =
                     Cardinality(PatternsIn(result.history))

\* C39 witness: the engine has returned a result without substitution, and after
\* it a result with a non-final and a final entry of two patterns.
C39_Witness ==
    /\ ResultOfLastCall
    /\ stats.total_executions = 2
    /\ stats.total_replacements = 2
    /\ Len(result.history) = 2
    /\ result.statistics.total_steps = 2
    /\ result.statistics.final_rule_applied
    /\ result.statistics.unique_rules_applied = 2
    /\ ~result.history[1].is_final

\* the (pattern, replacement, is_final) triples of the records of a file
TriplesOf(records) ==
    [k \in 1..Len(records) |->
        <<records[k].pattern, records[k].replacement, records[k].is_final>>]

\* the number of records of a file before the first one that lacks pattern or
\* replacement
GoodRecords(records) ==
    Max({ n \in 0..Len(records) :
            \A k \in 1..n : {"pattern", "replacement"} \subseteq DOMAIN records[k] })

\* C36: the file save_rules writes holds the ordered (pattern, replacement,
\* is_final) of the rules, and load_rules of that file makes the rule list that
\* ordered list with every applied_count 0, whatever the engine held. load_rules
\* does not test lengths and is not atomic: a file that cannot be opened or parsed
\* leaves the rule list unchanged; of a file with a record that lacks pattern or
\* replacement the records before that one replace the rule list, and the call
\* fails with KeyError.
C36_SaveLoad ==
    /\ [][ SaveRules => TriplesOf(saved'.records) = StaticRules(rules) ]_vars
    /\ [][ (saved.readable /\ LoadRules(saved)) =>
             /\ load_error' = NoError
             /\ StaticRules(rules') = TriplesOf(saved.records)
             /\ rules' = ZeroCounts(rules')
         ]_vars
    /\ [][ \A file \in FileChoices \cup {saved} :
             LoadRules(file) =>
                IF ~file.readable
                THEN /\ rules' = rules
                     /\ load_error'.kind = "OSError or JSONDecodeError"
                ELSE /\ Len(rules') = GoodRecords(file.records)
                     /\ \A k \in 1..Len(rules') :
                           /\ rules'[k].pattern = file.records[k].pattern
                           /\ rules'[k].replacement = file.records[k].replacement
                           /\ rules'[k].applied_count = 0
                     /\ load_error' =
                           IF GoodRecords(file.records) = Len(file.records)
                           THEN NoError
                           ELSE [kind |-> "KeyError",
                                 key |-> MissingKey(
                                    file.records[GoodRecords(file.records) + 1])]
                     /\ add_error' = add_error
         ]_vars

\* C36 witness: an engine whose one rule was saved has loaded the file whose
\* third record lacks the replacement: the call failed with KeyError, and the
\* engine holds the two records before it and not the rule it held.
C36_Witness ==
    /\ pc = "idle"
    /\ saved.readable
    /\ Len(saved.records) = 1
    /\ load_error.kind = "KeyError"
    /\ load_error.key = "replacement"
    /\ Len(rules) = 2
    /\ \A k \in 1..2 : StaticRules(rules)[k] # TriplesOf(saved.records)[1]

\* the identities of the history lists of the results returned so far
ReturnedLists == { returned[i].result.history : i \in 1..Len(returned) }

\* the for loop of the call with the frame c, run against an empty history
ForRulesWithoutHistory(c) ==
    ForRules([work_string |-> c.work_string, rules |-> heap[c.self.rules],
              history |-> << >>, stats |-> heap[c.self.stats],
              applied_this_iteration |-> FALSE, exit |-> "exhausted"],
             1, c.iteration + 1)

\* C33: the history of a result is a list of its own that holds what the
\* engine's log held at the return. No later step changes the list of a result
\* returned before, a later execute call on the same engine included, except
\* _clear_history of the history view on the very list the view was given; that
\* clearing never changes the log, the rules or the counters of an engine or the
\* list of another result; and the rule a pass applies, the string it makes and
\* the way it ends are those of the same pass made against an empty history.
C33_HistorySnapshot ==
    /\ [][ \A id \in ReturnedLists :
             heap'[id] # heap[id] => (ClearHistory /\ app.history_data = id)
         ]_vars
    /\ [][ Len(returned') > Len(returned) =>
             LET r == returned'[Len(returned')]
             IN  /\ heap'[r.result.history] = heap'[r.self.history]
                 /\ r.result.history # r.self.history
                 /\ r.result.history \notin ReturnedLists
                 /\ r.result.history # app.history_data
         ]_vars
    /\ [][ ClearHistory =>
             \A k \in 1..Len(engines) :
                /\ heap'[engines[k].history] = heap[engines[k].history]
                /\ heap'[engines[k].rules] = heap[engines[k].rules]
                /\ heap'[engines[k].stats] = heap[engines[k].stats]
         ]_vars
    /\ [][ \A c \in Calls :
             (calls[c].pc = "loop" /\ calls'[c] # calls[c]
                 /\ calls[c].iteration < max_iterations) =>
                LET f == ForRulesWithoutHistory(calls[c])
                IN  /\ calls'[c].work_string = f.work_string
                    /\ heap'[calls[c].self.rules] = f.rules
                    /\ (calls'[c].pc = "loop") =
                          (f.exit = "break" /\ f.applied_this_iteration)
         ]_vars

\* C33 witness: the engine returned a result with one entry, then a second call
\* on it returned a result with one entry; the history view was given the second
\* list and cleared it: the first result's list and the engine's log still hold
\* their entry.
C33_Witness ==
    /\ Len(returned) = 2
    /\ returned[1].self = returned[2].self
    /\ returned[2].result.statistics.rules_count >= 1
    /\ "total_steps" \in DOMAIN returned[2].result.statistics
    /\ app.history_data = returned[2].result.history
    /\ heap[app.history_data] = << >>
    /\ Len(heap[returned[1].result.history]) = 1
    /\ Len(heap[returned[2].self.history]) = 1
    /\ calls[1].pc = "returned"

\* the rules, the log and the counters of the engine e
PartsOf(h, e) == <<h[e.rules], h[e.history], h[e.stats]>>

\* the result r agrees with the run `alone` in output, status, iterations,
\* history, rule_usage and the statistics of the run
SameAsAlone(r, alone) ==
    /\ r.output = alone.output
    /\ r.status = alone.outcome
    /\ r.iterations = alone.iterations
    /\ heap[r.history] = alone.history
    /\ r.rule_usage = alone.rules
    /\ r.statistics.rules_count = Len(alone.rules)
    /\ r.statistics.active_rules_count =
          Cardinality({ k \in 1..Len(alone.rules) : alone.rules[k].applied_count > 0 })
    /\ \A key \in HistoryKeys :
          IF alone.history = << >> THEN key \notin DOMAIN r.statistics
          ELSE r.statistics[key] = get_stats(alone.history)[key]

\* C34: when calls on two different engines interleave, every call ends as it
\* ends on an engine of its own that holds the same rules: the same outcome, the
\* same output, status and iterations, the same history, rule_usage and
\* statistics of the run, and the lifetime counters of the result are those of
\* its engine; and a step of one engine (add_rule, the reset of execute, a pass
\* of its loop) leaves the rules, the log and the counters of the other engine
\* as they are.
C34_InstanceIsolation ==
    /\ [](\A i \in 1..Len(returned) :
             SameAsAlone(returned[i].result,
                         FreshRun(returned[i].result.rule_usage,
                                  returned[i].input_text)))
    /\ [][ \A c \in Calls :
             (calls[c].pc = "loop" /\ calls'[c].pc # "loop") =>
                LET e == calls[c].self
                    alone == FreshRun(heap[e.rules], calls[c].input_text)
                IN  /\ heap'[e.history] = alone.history
                    /\ heap'[e.rules] = alone.rules
                    /\ calls'[c].work_string = alone.output
                    /\ calls'[c].iteration = alone.iterations
                    /\ IF calls'[c].pc = "raised"
                       THEN calls'[c].raised.limit = alone.outcome
                       ELSE /\ calls'[c].result.status = alone.outcome
                            /\ \A key \in DOMAIN reset_stats :
                                  calls'[c].result.statistics[key] = heap'[e.stats][key]
         ]_vars
    /\ [][ \A k \in 1..Len(engines) :
             PartsOf(heap', engines[k]) # PartsOf(heap, engines[k]) =>
                /\ \A j \in 1..Len(engines) :
                      j # k => PartsOf(heap', engines[j]) = PartsOf(heap, engines[j])
                /\ \A c \in Calls : calls'[c] # calls[c] => calls'[c].self = engines[k]
         ]_vars

\* C34 witness: a call on each engine is in its loop after one pass, and each
\* engine's log holds the one entry of its own call; the two calls had different
\* inputs and the two engines hold different rules.
C34_Witness ==
    /\ calls[1].pc = "loop"
    /\ calls[2].pc = "loop"
    /\ calls[1].self # calls[2].self
    /\ calls[1].iteration = 1
    /\ calls[2].iteration = 1
    /\ calls[1].input_text # calls[2].input_text
    /\ heap[calls[1].self.rules] # heap[calls[2].self.rules]
    /\ Len(heap[calls[1].self.history]) = 1
    /\ Len(heap[calls[2].self.history]) = 1
    /\ heap[calls[1].self.history][1].before = calls[1].input_text
    /\ heap[calls[2].self.history][1].before = calls[2].input_text

\* the call in the place c is in its loop, and so is another call on its engine
Overlapping(c) ==
    /\ calls[c].pc = "loop"
    /\ \E d \in Calls \ {c} : calls[d].pc = "loop" /\ calls[d].self = calls[c].self

\* C35: execute has no guard against re-entry. When two calls on one engine
\* interleave at the granularity of one pass, each call ends as the call with
\* its input ends on an engine of its own: the same outcome, output, status and
\* iterations, since work_string and iteration are locals that no step of
\* another call changes. The log and the counts are shared: the reset of a
\* call that begins while another is in progress empties the log and sets
\* every applied_count to 0, and every pass of either call adds its entry to the
\* one log and its count to the one rule.
C35_NoReentryGuard ==
    /\ [](\A i \in 1..Len(returned) :
             LET r == returned[i].result
                 alone == FreshRun(r.rule_usage, returned[i].input_text)
             IN  /\ r.output = alone.output
                 /\ r.status = alone.outcome
                 /\ r.iterations = alone.iterations)
    /\ [][ \A c \in Calls :
             /\ (calls[c].pc = "loop" /\ calls'[c].pc = "raised") =>
                   LET alone == FreshRun(heap[calls[c].self.rules], calls[c].input_text)
                   IN  /\ calls'[c].raised.limit = alone.outcome
                       /\ calls'[c].work_string = alone.output
                       /\ calls'[c].iteration = alone.iterations
             /\ (calls[c].pc = "loop" /\ calls'[c] # calls[c]) =>
                   \A d \in Calls \ {c} : calls'[d] = calls[d]
             /\ (calls[c].pc # "loop" /\ calls'[c].pc = "loop") =>
                   /\ heap'[calls'[c].self.history] = << >>
                   /\ \A k \in 1..Len(heap'[calls'[c].self.rules]) :
                         heap'[calls'[c].self.rules][k].applied_count = 0
                   /\ \A d \in Calls \ {c} : calls'[d] = calls[d]
             /\ (Overlapping(c) /\ calls'[c] # calls[c]
                    /\ calls'[c].work_string # calls[c].work_string) =>
                   LET e == calls[c].self
                   IN  /\ Len(heap'[e.history]) = Len(heap[e.history]) + 1
                       /\ SubSeq(heap'[e.history], 1, Len(heap[e.history]))
                             = heap[e.history]
         ]_vars

\* C35 witness: on an engine with the rule a -> b the call with the input a
\* began, then the call with the input ab began and made a pass; the first call
\* then ran to its end and returned its own output b after 2 iterations, with a
\* history of two entries whose first is the other call's substitution in ab,
\* and a rule_usage that counts both.
C35_Witness ==
    /\ returned # << >>
    /\ returned[1].input_text = <<"a">>
    /\ returned[1].result.output = <<"b">>
    /\ returned[1].result.iterations = 2
    /\ Len(heap[returned[1].result.history]) = 2
    /\ heap[returned[1].result.history][1].before = <<"a", "b">>
    /\ returned[1].result.rule_usage[1].applied_count = 2
    /\ FreshRun(returned[1].result.rule_usage, <<"a">>).rules[1].applied_count = 1

\* the index of the first rule of rs that validate_rule refuses, Len(rs) + 1 if
\* it refuses none
FirstRefused(rs) ==
    Min({ k \in 1..Len(rs) :
            validate_rule(rs[k].pattern, rs[k].replacement, rs[k].is_final) # << >> }
        \cup {Len(rs) + 1})

\* the rules of the main window's engine
EngineRules == heap[engines[app.engine].rules]

\* C37: the engine of the main window holds the rules of the editor's list, in
\* order, up to the first one that validate_rule refuses: the whole list when
\* none is refused, and then a notification sets the status line to the number
\* of rules; only the rules before the refused one otherwise, and then the
\* notification opens an error dialog and the two lists differ. Every change of
\* the editor's list (add, update, delete, clear, set_rules) notifies the main
\* window, and the rules the engine holds after it are new, with applied_count 0.
C37_EditorEngineSync ==
    /\ [](StaticRules(EngineRules)
            = StaticRules(SubSeq(app.rules, 1, FirstRefused(app.rules) - 1)))
    /\ [](FirstRefused(app.rules) <= Len(app.rules) =>
            StaticRules(EngineRules) # StaticRules(app.rules))
    /\ [][ app'.rules # app.rules =>
             /\ EngineRules' = SubSeq(app'.rules, 1, FirstRefused(app'.rules) - 1)
             /\ IF FirstRefused(app'.rules) <= Len(app'.rules)
                THEN /\ app'.dialog = [kind |-> "error",
                                       cause |-> "RuleValidationError"]
                     /\ app'.status_bar = app.status_bar
                ELSE /\ app'.status_bar = [kind |-> "rules updated",
                                           count |-> Len(app'.rules)]
                     /\ app'.dialog = app.dialog
         ]_vars

\* C37 witness: the editor was given a rule set whose second rule has a
\* pattern longer than the engine's limit, and then its first rule was updated:
\* the editor holds three rules, the engine only the updated first one, and the
\* error dialog is open.
C37_Witness ==
    /\ Len(app.rules) = 3
    /\ FirstRefused(app.rules) = 2
    /\ app.rules[1] = Rule(<<"b">>, << >>, TRUE)
    /\ app.rules[3] = app.rules[1]
    /\ EngineRules = << app.rules[1] >>
    /\ app.dialog.kind = "error"
    /\ app.status_bar.kind = "ready"

\* C38: after an execute call started from the main window returns a result, the
\* output field holds the result's output, the history view holds its history,
\* the status line reports completion with the result's iterations and the
\* number of replacements, and no error dialog is open; and after every outcome
\* of the handler the processing indicator is off.
C38_ExecutionOutcome ==
    /\ [][ Len(returned') > Len(returned) =>
             LET r == returned'[Len(returned')].result
             IN  /\ app'.output_text = r.output
                 /\ app'.history_data = r.history
                 /\ app'.status_bar = [kind |-> "completed",
                                       iterations |-> r.iterations,
                                       replacements |-> r.statistics.total_replacements]
                 /\ app'.dialog.kind # "error"
         ]_vars
    /\ [](~app.processing)

\* after a returned result the output field and the history view are updated,
\* an error dialog is open and the status line reports the error, whatever the
\* result; after every outcome the processing indicator is off
C38_ErrorAfterResult ==
    /\ [][ Len(returned') > Len(returned) =>
             LET r == returned'[Len(returned')].result
             IN  /\ app'.output_text = r.output
                 /\ app'.history_data = r.history
                 /\ app'.status_bar.kind = "error"
                 /\ app'.dialog = [kind |-> "error", cause |-> "KeyError",
                                   key |-> "iterations"]
         ]_vars
    /\ [](~app.processing)

=============================================================================
